---- MODULE Spec2Model ----
(***************************************************************************)
(* A model of the mandate core of quillai-network/Verification-Demo:       *)
(* src/unnamed/part_000 (src/mandate.ts, class Mandate) and                *)
(* src/src/agent/verifier/thirdParty.ts (verifyMandateAsThirdParty).       *)
(*                                                                         *)
(* JavaScript objects live in a heap, so that two references to one object *)
(* (the constructor keeps init.core and init.signatures by reference) and  *)
(* a deep copy (toJSON) are different things.  An object is the sequence   *)
(* of its <<key, value>> properties in insertion order.  A string is the   *)
(* sequence of its ':'-separated segments, each with its letters and       *)
(* whether it holds upper case.  keccak256 and the ECDSA signatures are    *)
(* idealised: a digest names the text it was computed from, a signature    *)
(* names its signer, scheme, domain and message.                           *)
(***************************************************************************)
EXTENDS Integers, Sequences, FiniteSets, TLC

(***************************************************************************)
(* Strings                                                                 *)
(***************************************************************************)

\* One ':'-free piece of a string: its letters (a), whether it holds upper
\* case letters (u), and what it is cryptographically (c): << >> for an
\* ordinary string, <<"hash">> for a digest of the text a,
\* <<"sig", signer, scheme, domain>> for a signature over the text a.
Seg(a, u) == [a |-> a, u |-> u, c |-> << >>]

\* A string without ':' and without upper case letters.
Str(a) == << Seg(a, FALSE) >>

\* The empty string.
EmptyStr == << >>

\* A function on 1..n as the sequence of its values.
Tuple(f) == << >> \o f

\* String.prototype.toLowerCase
ToLowerCase(s) == Tuple([i \in 1..Len(s) |-> [s[i] EXCEPT !.u = FALSE]])

\* s.split(":"): the pieces, each a string. "".split(":") is [""].
Split(s) == IF s = EmptyStr THEN << EmptyStr >> ELSE Tuple([i \in 1..Len(s) |-> << s[i] >>])

(***************************************************************************)
(* Values and the heap                                                     *)
(***************************************************************************)

VStr(s) == [t |-> "str", s |-> s, r |-> 0]
VNum(a) == [t |-> "num", s |-> Str(a), r |-> 0]
VRef(a) == [t |-> "ref", s |-> EmptyStr, r |-> a]
\* A reference to an array: the object at a holds the elements, in order,
\* under their indices.
VArr(a) == [t |-> "arr", s |-> EmptyStr, r |-> a]
Undefined == [t |-> "undef", s |-> EmptyStr, r |-> 0]
Null == [t |-> "null", s |-> EmptyStr, r |-> 0]

\* !v
Falsy(v) ==
  \/ v.t \in {"undef", "null"}
  \/ v.t = "str" /\ v.s = EmptyStr
  \/ v.t = "num" /\ v.s = Str("0")

\* v ?? d takes d for these
Nullish(v) == v.t \in {"undef", "null"}

\* The properties of an object: a sequence of <<key, value>>.
HasKey(o, k) == \E i \in 1..Len(o) : o[i][1] = k
Get(o, k) == IF HasKey(o, k) THEN o[CHOOSE i \in 1..Len(o) : o[i][1] = k][2] ELSE Undefined
\* An assignment that adds the property even when the key is there already.
PutAppend(o, k, v) == Append(o, <<k, v>>)
\* o[k] = v
Put(o, k, v) ==
  IF HasKey(o, k)
  THEN Tuple([i \in 1..Len(o) |-> IF o[i][1] = k THEN <<k, v>> ELSE o[i]])
  ELSE Append(o, <<k, v>>)
\* delete o[k]
Del(o, k) == SelectSeq(o, LAMBDA p : p[1] # k)

\* A new object with the given properties: the heap after, and its address.
New(h, props) == [h |-> Append(h, props), a |-> Len(h) + 1]

\* obj[k], obj[k] = v, delete obj[k], for the object at address a
Field(h, a, k) == Get(h[a], k)
SetField(h, a, k, v) == [h EXCEPT ![a] = Put(h[a], k, v)]
DelField(h, a, k) == [h EXCEPT ![a] = Del(h[a], k)]

(***************************************************************************)
(* JSON.stringify, JSON.parse, deepClone                                   *)
(***************************************************************************)

\* The value that JSON text denotes, as a tree: t is "obj", "arr", "str",
\* "num", "null" or "undef" (no text at all), s the string or number, kv the
\* <<key, tree>> members of an object, or the <<index, tree>> elements of
\* an array, in the order of the text.
NoTree == [t |-> "undef", s |-> EmptyStr, kv |-> << >>]

\* The concatenation of a sequence of sequences (or of strings).
RECURSIVE Flat(_, _)
Flat(parts, empty) ==
  IF Len(parts) = 0 THEN empty
  ELSE IF Len(parts) = 1 THEN parts[1]
  ELSE LET half == Len(parts) \div 2
       IN Flat(SubSeq(parts, 1, half), empty) \o Flat(SubSeq(parts, half + 1, Len(parts)), empty)

RECURSIVE Sum(_)
Sum(ns) ==
  IF Len(ns) = 0 THEN 0
  ELSE IF Len(ns) = 1 THEN ns[1]
  ELSE LET half == Len(ns) \div 2
       IN Sum(SubSeq(ns, 1, half)) + Sum(SubSeq(ns, half + 1, Len(ns)))

RECURSIVE Stringify(_, _)
\* JSON.stringify(v). Keys keep their insertion order; a property whose
\* value is undefined is left out.
Stringify(h, v) ==
  CASE v.t \in {"ref", "arr"} ->
         LET ps == SelectSeq(h[v.r], LAMBDA p : p[2].t # "undef")
         IN [t |-> IF v.t = "ref" THEN "obj" ELSE "arr", s |-> EmptyStr,
             kv |-> Tuple([i \in 1..Len(ps) |-> <<ps[i][1], Stringify(h, ps[i][2])>>])]
    [] v.t = "undef" -> NoTree
    [] OTHER -> [t |-> v.t, s |-> v.s, kv |-> << >>]

\* The objects of a sequence with every reference moved by k places.
Shift(objs, k) ==
  Tuple([a \in 1..Len(objs) |->
     Tuple([i \in 1..Len(objs[a]) |->
        IF objs[a][i][2].t \in {"ref", "arr"}
        THEN <<objs[a][i][1], [objs[a][i][2] EXCEPT !.r = @ + k]>>
        ELSE objs[a][i]])])

RECURSIVE Build(_)
\* The objects JSON.parse builds for an object tree: the object itself
\* first, then those of its members; references count from the first.
Build(tree) ==
  LET kv == tree.kv
      sub == Tuple([i \in 1..Len(kv) |->
                      IF kv[i][2].t \in {"obj", "arr"} THEN Build(kv[i][2]) ELSE << >>])
      off == Tuple([i \in 1..Len(kv) |-> 1 + Sum(Tuple([j \in 1..(i - 1) |-> Len(sub[j])]))])
  IN << Tuple([i \in 1..Len(kv) |->
                <<kv[i][1],
                  IF kv[i][2].t \in {"obj", "arr"}
                  THEN [t |-> IF kv[i][2].t = "obj" THEN "ref" ELSE "arr",
                        s |-> EmptyStr, r |-> off[i] + 1]
                  ELSE [t |-> kv[i][2].t, s |-> kv[i][2].s, r |-> 0]>>]) >>
     \o Flat(Tuple([i \in 1..Len(kv) |-> Shift(sub[i], off[i])]), << >>)

\* JSON.parse(text): builds new objects; the heap after, and the value.
Parse(h, tree) ==
  CASE tree.t \in {"obj", "arr"} ->
         [h |-> h \o Shift(Build(tree), Len(h)),
          v |-> [t |-> IF tree.t = "obj" THEN "ref" ELSE "arr", s |-> EmptyStr, r |-> Len(h) + 1]]
    [] tree.t = "undef" -> [h |-> h, v |-> Undefined]
    [] OTHER -> [h |-> h, v |-> [t |-> tree.t, s |-> tree.s, r |-> 0]]

\* A copy that shares the nested objects of the original: { ...x }.
ShallowClone(h, v) ==
  IF v.t = "ref"
  THEN LET n == New(h, h[v.r]) IN [h |-> n.h, v |-> VRef(n.a)]
  ELSE [h |-> h, v |-> v]

\* function deepClone(x) { return JSON.parse(JSON.stringify(x)); }
DeepClone(h, v) == Parse(h, Stringify(h, v))

(***************************************************************************)
(* Canonicalisation and hashing (part_000 lines 25-32)                     *)
(***************************************************************************)

\* The keys the documents use, in the order of their UTF-16 code units: the
\* order canonicalize() sorts them into.
KeyOrder ==
  << "alg", "amountIn", "chainId", "client", "clientSig", "core", "createdAt",
     "deadline", "fee", "intent", "kind", "mandateHash", "mandateId", "minOut", "note",
     "path", "payload", "server", "serverSig", "signature", "signatures", "token",
     "version" >>

\* The member of an object tree under a key.
Member(kv, k) == kv[CHOOSE i \in 1..Len(kv) : kv[i][1] = k][2]

\* The tree with the keys of the outermost object sorted.
SortTop(tree) ==
  LET keys == SelectSeq(KeyOrder, LAMBDA k : \E i \in 1..Len(tree.kv) : tree.kv[i][1] = k)
  IN [tree EXCEPT !.kv = Tuple([i \in 1..Len(keys) |-> <<keys[i], Member(tree.kv, keys[i])>>])]

RECURSIVE SortTree(_)
\* The tree with the keys of every object sorted; the elements of an array
\* stay in their order.
SortTree(tree) ==
  IF tree.t = "arr"
  THEN [tree EXCEPT
          !.kv = Tuple([i \in 1..Len(tree.kv) |-> <<tree.kv[i][1], SortTree(tree.kv[i][2])>>])]
  ELSE LET keys == SelectSeq(KeyOrder, LAMBDA k : \E i \in 1..Len(tree.kv) : tree.kv[i][1] = k)
       IN [tree EXCEPT
             !.kv = Tuple([i \in 1..Len(keys) |->
                             <<keys[i], SortTree(Member(tree.kv, keys[i]))>>])]

\* The characters of a string: upper case is marked, so that strings that
\* differ only in letter case have different texts.
TextOfSeg(g) ==
  (IF g.u THEN "^" ELSE "") \o g.a
  \o (IF g.c = << >> THEN "" ELSE Flat(Tuple([i \in 1..Len(g.c) |-> "#" \o g.c[i]]), ""))
TextOfStr(s) ==
  Flat(Tuple([i \in 1..Len(s) |-> (IF i > 1 THEN ":" ELSE "") \o TextOfSeg(s[i])]), "")

RECURSIVE TextOf(_)
\* The text of a tree without insignificant whitespace.
TextOf(tree) ==
  CASE tree.t = "obj" ->
         "{" \o Flat(Tuple([i \in 1..Len(tree.kv) |->
                              (IF i > 1 THEN "," ELSE "") \o "'" \o tree.kv[i][1] \o "':"
                              \o TextOf(tree.kv[i][2])]), "")
         \o "}"
    [] tree.t = "arr" ->
         "[" \o Flat(Tuple([i \in 1..Len(tree.kv) |->
                              (IF i > 1 THEN "," ELSE "") \o TextOf(tree.kv[i][2])]), "")
         \o "]"
    [] tree.t = "str" -> "'" \o TextOfStr(tree.s) \o "'"
    [] tree.t = "num" -> TextOfStr(tree.s)
    [] OTHER -> "null"

\* A serialisation that keeps the keys in insertion order (JSON.stringify).
CanonicalizeUnsorted(h, v) == TextOf(Stringify(h, v))

\* A canonicalize that sorts the keys of the document and not those of the
\* objects in it.
CanonicalizeTopLevel(h, v) == TextOf(SortTop(Stringify(h, v)))

\* canonicalize(m): the JCS text.
Canonicalize(h, v) == TextOf(SortTree(Stringify(h, v)))

\* canonicalizeForHash without the `delete m.signatures`.
CanonicalizeWithSignatures(h, doc) == Canonicalize(h, VRef(doc))

\* function canonicalizeForHash(doc): clone, drop signatures, canonicalize.
WithoutSignatures(m) == Canonicalize(DelField(m.h, m.v.r, "signatures"), m.v)
CanonicalizeForHash(h, doc) == WithoutSignatures(DeepClone(h, VRef(doc)))

\* keccak256(toUtf8Bytes(text)): a lower-case hex string.
Keccak256(text) == << [a |-> text, u |-> FALSE, c |-> <<"hash">>] >>

\* function computeMandateHash(doc)
ComputeMandateHash(h, doc) == Keccak256(CanonicalizeForHash(h, doc))

(***************************************************************************)
(* Wallets and signatures (ethers)                                         *)
(***************************************************************************)

\* wallet.address: the checksummed (mixed case) address of a key.
Address(w) == << Seg(w, TRUE) >>

\* What recovery yields for a signature that does not fit the message.
GarbageAddress == << Seg("0xUnrelated", TRUE) >>

\* A TypedDataDomain: absent, or an object with or without a numeric chainId.
NoDomain == [def |-> FALSE, chainIdNum |-> FALSE, id |-> ""]
Domain(id) == [def |-> TRUE, chainIdNum |-> TRUE, id |-> id]

\* A domain object that names no chain: { name: "Mandate" }.
DomainNoChain == [def |-> TRUE, chainIdNum |-> FALSE, id |-> "nochain"]

\* A test that asks for a domain but not for its chainId.
DomainAbsent(domain) == ~domain.def

\* !domain || typeof domain.chainId !== "number"
DomainMissing(domain) == ~domain.def \/ ~domain.chainIdNum

\* The 32 bytes a hex digest string stands for, whatever its letter case.
Bytes32(hs) == IF hs = EmptyStr THEN "" ELSE hs[1].a

IsSignature(s) == Len(s) = 1 /\ Len(s[1].c) = 4

\* wallet.signMessage(toUtf8Bytes(jcs))
SignMessage(w, jcs) == << [a |-> jcs, u |-> FALSE, c |-> <<"sig", w, "eip191", "">>] >>

\* wallet.signTypedData(domain, types, { mandateHash })
SignTypedData(w, domain, mandateHash) ==
  << [a |-> Bytes32(mandateHash), u |-> FALSE, c |-> <<"sig", w, "eip712", domain.id>>] >>

\* verifyMessage(toUtf8Bytes(jcs), signature): the recovered address; throws
\* on a string that is no signature.
VerifyMessage(jcs, signature) ==
  IF ~IsSignature(signature) THEN [ok |-> FALSE, addr |-> EmptyStr]
  ELSE LET g == signature[1] IN
       [ok |-> TRUE,
        addr |-> IF g.c[3] = "eip191" /\ g.a = jcs THEN Address(g.c[2]) ELSE GarbageAddress]

\* A recovery that leaves the domain out of the digest.
VerifyTypedDataAnyDomain(domain, mandateHash, signature) ==
  IF ~IsSignature(signature) THEN [ok |-> FALSE, addr |-> EmptyStr]
  ELSE LET g == signature[1] IN
       [ok |-> TRUE,
        addr |-> IF g.c[3] = "eip712" /\ g.a = Bytes32(mandateHash)
                 THEN Address(g.c[2])
                 ELSE GarbageAddress]

\* verifyTypedData(domain, types, { mandateHash }, signature)
VerifyTypedData(domain, mandateHash, signature) ==
  IF ~IsSignature(signature) THEN [ok |-> FALSE, addr |-> EmptyStr]
  ELSE LET g == signature[1] IN
       [ok |-> TRUE,
        addr |-> IF g.c[3] = "eip712" /\ g.c[4] = domain.id /\ g.a = Bytes32(mandateHash)
                 THEN Address(g.c[2])
                 ELSE GarbageAddress]

(***************************************************************************)
(* class Mandate (part_000 lines 34-181).  A Mandate instance is the       *)
(* address of its private document this.m.                                 *)
(***************************************************************************)

\* An ISO 8601 date-time string for minute n of the day ("...T00:0n:00Z").
Iso(n) == << Seg("2026-01-01T00", TRUE), Seg(ToString(n), FALSE), Seg("00.000Z", TRUE) >>

\* The failed outcome of a call that returns a heap and an address.
Thrown(h, err) == [ok |-> FALSE, err |-> err, h |-> h, a |-> 0]
Returned(h, a) == [ok |-> TRUE, err |-> "", h |-> h, a |-> a]

\* line 64: core: (init.core ?? {})
CoreOrEmpty(h, o) ==
  IF Nullish(Get(o, "core"))
  THEN LET n == New(h, << >>) IN [h |-> n.h, v |-> VRef(n.a)]
  ELSE [h |-> h, v |-> Get(o, "core")]

\* lines 56-65: this.m = { mandateId: ..., ..., core: ... }
Document(c, o, ulid, now) ==
  New(c.h,
      << <<"mandateId", IF Nullish(Get(o, "mandateId")) THEN VStr(ulid) ELSE Get(o, "mandateId")>>,
         <<"version", Get(o, "version")>>,
         <<"client", Get(o, "client")>>,
         <<"server", Get(o, "server")>>,
         <<"createdAt", IF Nullish(Get(o, "createdAt")) THEN VStr(Iso(now)) ELSE Get(o, "createdAt")>>,
         <<"deadline", Get(o, "deadline")>>,
         <<"intent", IF Nullish(Get(o, "intent")) THEN VStr(EmptyStr) ELSE Get(o, "intent")>>,
         <<"core", c.v>> >>)

\* A constructor that leaves init.signatures behind.
IgnoreSignatures(m, signatures) == Returned(m.h, m.a)

\* line 66: if (init.signatures) this.m.signatures = init.signatures
AssignSignatures(m, signatures) ==
  IF Falsy(signatures) THEN Returned(m.h, m.a)
  ELSE Returned(SetField(m.h, m.a, "signatures", signatures), m.a)

\* A constructor that fills in the caller's object and keeps it as this.m.
ConstructorInPlace(h, init, ulid, now) ==
  IF Falsy(Get(h[init], "client")) \/ Falsy(Get(h[init], "server"))
  THEN Thrown(h, "client and server (CAIP-10) are required")
  ELSE IF Falsy(Get(h[init], "deadline"))
  THEN Thrown(h, "deadline (ISO 8601) is required")
  ELSE Returned(SetField(SetField(h, init, "mandateId",
                                  IF Nullish(Get(h[init], "mandateId")) THEN VStr(ulid)
                                  ELSE Get(h[init], "mandateId")),
                         init, "intent",
                         IF Nullish(Get(h[init], "intent")) THEN VStr(EmptyStr)
                         ELSE Get(h[init], "intent")),
                init)

\* A constructor that asks for the client only.
ConstructorClientOnly(h, init, ulid, now) ==
  IF Falsy(Get(h[init], "client"))
  THEN Thrown(h, "client and server (CAIP-10) are required")
  ELSE AssignSignatures(Document(CoreOrEmpty(h, h[init]), h[init], ulid, now),
                        Get(h[init], "signatures"))

\* constructor(init): init is the address of the caller's object; ulid and
\* now are what ulid() and new Date() give when the constructor asks.
Constructor(h, init, ulid, now) ==
  IF Falsy(Get(h[init], "client")) \/ Falsy(Get(h[init], "server"))
  THEN Thrown(h, "client and server (CAIP-10) are required")
  ELSE IF Falsy(Get(h[init], "deadline"))
  THEN Thrown(h, "deadline (ISO 8601) is required")
  ELSE AssignSignatures(Document(CoreOrEmpty(h, h[init]), h[init], ulid, now),
                        Get(h[init], "signatures"))

\* static fromObject(obj) { return new Mandate(obj); }
FromObject(h, obj, ulid, now) == Constructor(h, obj, ulid, now)

\* toJSON(): the heap after, and the snapshot (a reference to a new document).
ToJSON(h, m) == DeepClone(h, VRef(m))

\* toCanonicalString()
ToCanonicalString(h, m) == CanonicalizeForHash(h, m)

\* mandateHash()
MandateHash(h, m) == ComputeMandateHash(h, m)

SigKey(role) == IF role = "client" THEN "clientSig" ELSE "serverSig"

\* attachSig that starts from a new signatures object on every call.
AttachSigReplacesAll(h, m, role, sig) ==
  LET n == New(h, << <<SigKey(role), VRef(sig)>> >>)
  IN SetField(n.h, m, "signatures", VRef(n.a))

\* private attachSig(role, sig): sig is the address of the Signature object.
AttachSig(h, m, role, sig) ==
  LET cur == Field(h, m, "signatures")
      n == IF Falsy(cur) THEN New(h, << >>) ELSE [h |-> h, a |-> cur.r]
  IN SetField(SetField(n.h, m, "signatures", VRef(n.a)), n.a, SigKey(role), VRef(sig))

\* sign(), lines 132-138: the signature over the canonical string.
SignCanonical(jcs, wallet, alg, domain) ==
  CASE alg = "eip191" ->
         [ok |-> TRUE, err |-> "", alg |-> alg, mandateHash |-> Keccak256(jcs),
          signature |-> SignMessage(wallet, jcs)]
    [] alg = "eip712" ->
         IF DomainMissing(domain)
         THEN [ok |-> FALSE, err |-> "EIP-712 requires domain", alg |-> alg,
               mandateHash |-> Keccak256(jcs), signature |-> EmptyStr]
         ELSE [ok |-> TRUE, err |-> "", alg |-> alg, mandateHash |-> Keccak256(jcs),
               signature |-> SignTypedData(wallet, domain, Keccak256(jcs))]
    [] OTHER ->
         [ok |-> FALSE, err |-> "Unsupported alg", alg |-> alg,
          mandateHash |-> Keccak256(jcs), signature |-> EmptyStr]

\* sign(), lines 129-138: up to and including the await on the wallet.
SignPrepare(h, m, wallet, alg, domain) ==
  SignCanonical(ToCanonicalString(h, m), wallet, alg, domain)

\* sign(), lines 140-142: build the Signature object and attach it.
SignComplete(h, m, role, p) ==
  LET sig == New(h, << <<"alg", VStr(Str(p.alg))>>,
                       <<"mandateHash", VStr(p.mandateHash)>>,
                       <<"signature", VStr(p.signature)>> >>)
  IN Returned(AttachSig(sig.h, m, role, sig.a), sig.a)

SignOutcome(h, m, role, p) == IF p.ok THEN SignComplete(h, m, role, p) ELSE Thrown(h, p.err)

\* async sign(role, wallet, alg, domain), awaited with nothing in between.
Sign(h, m, role, wallet, alg, domain) ==
  SignOutcome(h, m, role, SignPrepare(h, m, wallet, alg, domain))

VerifyThrown(err) ==
  [ok |-> FALSE, err |-> err, recovered |-> EmptyStr, recomputedHash |-> EmptyStr, alg |-> EmptyStr]

\* A comparison that never reports a difference.
HashMismatchNever(mandateHash, recomputed) == FALSE

\* line 155: mandateHash.toLowerCase() !== recomputed.toLowerCase()
HashMismatch(mandateHash, recomputed) == ToLowerCase(mandateHash) # ToLowerCase(recomputed)

\* line 167 without the toLowerCase().
ExpectedAddressAsWritten(id) == Split(id)[3]

\* line 167: this.m[role].split(":")[2].toLowerCase(), for an id of three or
\* more parts.
ExpectedAddress(id) == ToLowerCase(Split(id)[3])

\* lines 158-164: the address the signature recovers to.
Recover(alg, domain, jcs, mandateHash, signature) ==
  IF alg = VStr(Str("eip191"))
  THEN VerifyMessage(jcs, signature)
  ELSE VerifyTypedData(domain, mandateHash, signature)

\* lines 154-171, on the fields of the Signature object, the recomputed
\* hash, the canonical string and the role's identifier.
VerifyFields(role, domain, alg, mandateHash, signature, recomputed, jcs, id) ==
  IF mandateHash.t # "str" THEN VerifyThrown("TypeError")
  ELSE IF HashMismatch(mandateHash.s, recomputed)
  THEN VerifyThrown(role \o "Sig.mandateHash mismatch")
  ELSE IF alg # VStr(Str("eip191")) /\ DomainMissing(domain)
  THEN VerifyThrown("EIP-712 requires domain")
  ELSE IF signature.t # "str" \/ ~Recover(alg, domain, jcs, mandateHash.s, signature.s).ok
  THEN VerifyThrown("invalid signature")
  ELSE IF id.t # "str" \/ Len(Split(id.s)) < 3 THEN VerifyThrown("TypeError")
  ELSE IF ToLowerCase(Recover(alg, domain, jcs, mandateHash.s, signature.s).addr)
            # ExpectedAddress(id.s)
  THEN VerifyThrown(role \o " signature invalid")
  ELSE [ok |-> TRUE, err |-> "",
        recovered |-> Recover(alg, domain, jcs, mandateHash.s, signature.s).addr,
        recomputedHash |-> recomputed, alg |-> alg.s]

\* lines 152-171: verifyRole once the role's Signature object is in hand.
VerifySigObj(h, m, role, sigObj, domain) ==
  VerifyFields(role, domain, Field(h, sigObj, "alg"), Field(h, sigObj, "mandateHash"),
               Field(h, sigObj, "signature"), MandateHash(h, m), ToCanonicalString(h, m),
               Field(h, m, role))

\* The role's entry of this.m.signatures.
SigObjOf(h, m, role) ==
  IF Field(h, m, "signatures").t = "ref"
  THEN Field(h, Field(h, m, "signatures").r, SigKey(role))
  ELSE Undefined

\* verifyRole that compares the hashes before it looks for the signature.
VerifyRoleHashFirst(h, m, role, domain) ==
  IF SigObjOf(h, m, role).t = "ref"
  THEN VerifySigObj(h, m, role, SigObjOf(h, m, role).r, domain)
  ELSE VerifyThrown(role \o "Sig.mandateHash mismatch")

\* verifyRole(role, domain)
VerifyRole(h, m, role, domain) ==
  IF Falsy(Field(h, m, "signatures")) THEN VerifyThrown("no signatures")
  ELSE IF Falsy(SigObjOf(h, m, role)) THEN VerifyThrown(role \o "Sig missing")
  ELSE IF SigObjOf(h, m, role).t # "ref" THEN VerifyThrown("TypeError")
  ELSE VerifySigObj(h, m, role, SigObjOf(h, m, role).r, domain)

VerifyAllThrown(role, err) ==
  [ok |-> FALSE, err |-> err, role |-> role,
   client |-> VerifyThrown(err), server |-> VerifyThrown(err)]

\* An object literal whose server member is evaluated first.
ServerThenClient(c, s) ==
  IF ~s.ok THEN VerifyAllThrown("server", s.err)
  ELSE IF ~c.ok THEN VerifyAllThrown("client", c.err)
  ELSE [ok |-> TRUE, err |-> "", role |-> "", client |-> c, server |-> s]

\* line 175: { client: <c>, server: <s> }, the members evaluated in order;
\* the first that throws ends the call.
ClientThenServer(c, s) ==
  IF ~c.ok THEN VerifyAllThrown("client", c.err)
  ELSE IF ~s.ok THEN VerifyAllThrown("server", s.err)
  ELSE [ok |-> TRUE, err |-> "", role |-> "", client |-> c, server |-> s]

\* verifyAll(dc, ds)
VerifyAll(h, m, dc, ds) ==
  ClientThenServer(VerifyRole(h, m, "client", dc), VerifyRole(h, m, "server", ds))

(***************************************************************************)
(* verifyMandateAsThirdParty (thirdParty.ts lines 12-71)                   *)
(***************************************************************************)

\* The latest minute the clock of the model shows.
MaxTime == 2
Times == 0..MaxTime

\* The minutes between the making of a mandate and its deadline (ab-flow).
DeadlineMinutes == 20
Minutes == 0..(MaxTime + DeadlineMinutes)

\* new Date(s).getTime(): the minute, or NaN for a string that is no date.
GetTime(s) ==
  IF \E n \in Minutes : s = Iso(n)
  THEN [nan |-> FALSE, t |-> CHOOSE n \in Minutes : s = Iso(n)]
  ELSE [nan |-> TRUE, t |-> 0]

\* addrFromCaip10(id): the address part of a chain-qualified identifier.
AddrFromCaip10(id) == Split(id)[3]

\* A guard that looks at the kind only.
IsSwapCoreByKind(h, x) == x.t = "ref" /\ Field(h, x.r, "kind") = VStr(Str("swap@1"))

\* function isSwapCore(x)
IsSwapCore(h, x) ==
  /\ x.t = "ref"
  /\ Field(h, x.r, "kind") = VStr(Str("swap@1"))
  /\ ~Falsy(Field(h, x.r, "payload"))
  /\ Field(h, x.r, "payload").t = "ref"
  /\ Field(h, Field(h, x.r, "payload").r, "amountIn").t = "str"

\* VerifyOptions. requireClient and requireServer are strings, empty when
\* not given; now is a minute, or absent (-1); primitive is "" or "swap@1".
NoOptions ==
  [requireClient |-> EmptyStr, requireServer |-> EmptyStr, now |-> -1,
   eip712ClientDomain |-> NoDomain, eip712ServerDomain |-> NoDomain, primitive |-> ""]

\* A comparison of the addresses as they are written.
MismatchAsWritten(required, addr) == required # EmptyStr /\ addr # required

\* lines 44, 47: opts.requireClient && clientAddr !== opts.requireClient.toLowerCase()
Mismatch(required, addr) == required # EmptyStr /\ addr # ToLowerCase(required)

\* A deadline that has passed once the reference time has reached it.
LaterOrEqual(now, deadline) == ~deadline.nan /\ now >= deadline.t

\* line 52: now > new Date(j.deadline).getTime(), false when that is NaN
Later(now, deadline) == ~deadline.nan /\ now > deadline.t

\* A thrown error, and the step of the verification that threw it.
TPThrown(step, err) ==
  [ok |-> FALSE, step |-> step, err |-> err,
   parties |-> [client |-> EmptyStr, server |-> EmptyStr],
   signatures |-> VerifyAllThrown("", err), mandateHash |-> EmptyStr, core |-> NoTree]

\* lines 40-70 with the deadline compared before the parties.
DeadlineBeforeParties(h, j, sigs, mandateHash, opts, clock) ==
  LET clientAddr == ToLowerCase(AddrFromCaip10(Field(h, j, "client").s))
      serverAddr == ToLowerCase(AddrFromCaip10(Field(h, j, "server").s))
      now == IF opts.now = -1 THEN clock ELSE opts.now
      deadline == GetTime(Field(h, j, "deadline").s)
      core == Field(h, j, "core")
  IN IF Later(now, deadline)
     THEN TPThrown("deadline", "mandate deadline has passed")
     ELSE IF Mismatch(opts.requireClient, clientAddr)
     THEN TPThrown("identity", "client mismatch")
     ELSE IF Mismatch(opts.requireServer, serverAddr)
     THEN TPThrown("identity", "server mismatch")
     ELSE IF opts.primitive = "swap@1" /\ ~IsSwapCore(h, core)
     THEN TPThrown("primitive", "unexpected core shape for swap@1")
     ELSE IF opts.primitive = "swap@1"
             /\ Field(h, Field(h, core.r, "payload").r, "amountIn") = VStr(Str("0"))
     THEN TPThrown("primitive", "bad amountIn")
     ELSE [ok |-> TRUE, step |-> "done", err |-> "",
           parties |-> [client |-> clientAddr, server |-> serverAddr],
           signatures |-> sigs, mandateHash |-> mandateHash, core |-> Stringify(h, core)]

\* lines 40-70: the checks on the snapshot j, and the receipt.
CheckSnapshot(h, j, sigs, mandateHash, opts, clock) ==
  LET clientAddr == ToLowerCase(AddrFromCaip10(Field(h, j, "client").s))
      serverAddr == ToLowerCase(AddrFromCaip10(Field(h, j, "server").s))
      now == IF opts.now = -1 THEN clock ELSE opts.now
      deadline == GetTime(Field(h, j, "deadline").s)
      core == Field(h, j, "core")
  IN IF Mismatch(opts.requireClient, clientAddr)
     THEN TPThrown("identity", "client mismatch")
     ELSE IF Mismatch(opts.requireServer, serverAddr)
     THEN TPThrown("identity", "server mismatch")
     ELSE IF Later(now, deadline)
     THEN TPThrown("deadline", "mandate deadline has passed")
     ELSE IF opts.primitive = "swap@1" /\ ~IsSwapCore(h, core)
     THEN TPThrown("primitive", "unexpected core shape for swap@1")
     ELSE IF opts.primitive = "swap@1"
             /\ Field(h, Field(h, core.r, "payload").r, "amountIn") = VStr(Str("0"))
     THEN TPThrown("primitive", "bad amountIn")
     ELSE [ok |-> TRUE, step |-> "done", err |-> "",
           parties |-> [client |-> clientAddr, server |-> serverAddr],
           signatures |-> sigs, mandateHash |-> mandateHash, core |-> Stringify(h, core)]

\* lines 37-70: after verifyAll, on the snapshot j = m.toJSON().
AfterVerifyAll(m, sigs, j, opts, clock) ==
  IF ~sigs.ok THEN TPThrown("signatures", sigs.err)
  ELSE CheckSnapshot(j.h, j.v.r, sigs, MandateHash(j.h, m.a), opts, clock)

\* lines 34-70: after Mandate.fromObject.
AfterFromObject(m, opts, clock) ==
  IF ~m.ok THEN TPThrown("reconstruct", m.err)
  ELSE AfterVerifyAll(m, VerifyAll(m.h, m.a, opts.eip712ClientDomain, opts.eip712ServerDomain),
                      ToJSON(m.h, m.a), opts, clock)

\* verifyMandateAsThirdParty(mandateJson, opts): mandateJson is the address
\* of the document; ulid and clock are what ulid() and new Date() give.
VerifyMandateAsThirdParty(h, mandateJson, opts, ulid, clock) ==
  AfterFromObject(FromObject(h, mandateJson, ulid, clock), opts, clock)

\* The objects as the call leaves them: the call makes the rebuilt mandate
\* (line 34) and its snapshot (line 40), and writes to no other object.
LeftBy(m) == IF m.ok THEN ToJSON(m.h, m.a).h ELSE m.h
HeapAfterThirdParty(h, mandateJson, ulid, clock) ==
  LeftBy(FromObject(h, mandateJson, ulid, clock))

(***************************************************************************)
(* The callers' documents: object literals as the trees they denote        *)
(***************************************************************************)

Obj(kv) == [t |-> "obj", s |-> EmptyStr, kv |-> kv]
TStr(s) == [t |-> "str", s |-> s, kv |-> << >>]
TNum(a) == [t |-> "num", s |-> Str(a), kv |-> << >>]

\* caip10(chainId, address): `eip155:${chainId}:${address}`
Caip10(chainId, address) == << Seg("eip155", FALSE), Seg(chainId, FALSE) >> \o address

\* The two parties' keys: A is the client, B the server (ab-flow.ts).
Wallets == {"0xA", "0xB"}
PartyOf(role) == IF role = "client" THEN "0xA" ELSE "0xB"
Roles == {"client", "server"}

SwapPayload ==
  Obj(<< <<"chainId", TNum("1")>>,
         <<"amountIn", TStr(Str("100000000"))>>,
         <<"minOut", TStr(Str("165000"))>> >>)
SwapPayloadReordered ==
  Obj(<< <<"minOut", TStr(Str("165000"))>>,
         <<"amountIn", TStr(Str("100000000"))>>,
         <<"chainId", TNum("1")>> >>)

\* The literal of ab-flow.ts (clientAgent.ts lines 404-422), made at minute
\* now for the wallets a (client) and b (server): no mandateId, no createdAt.
LitFlowOf(a, b, now) ==
  Obj(<< <<"version", TStr(Str("0.1.0"))>>,
         <<"client", TStr(Caip10("1", Address(a)))>>,
         <<"server", TStr(Caip10("1", Address(b)))>>,
         <<"deadline", TStr(Iso(now + DeadlineMinutes))>>,
         <<"intent", TStr(Str("Swap 100 USDC for WBTC"))>>,
         <<"core", Obj(<< <<"kind", TStr(Str("swap@1"))>>, <<"payload", SwapPayload>> >>)>> >>)
LitFlow == LitFlowOf("0xA", "0xB", 0)

\* A complete document, and the same document written in another key order.
LitFull ==
  Obj(<< <<"mandateId", TStr(Str("01M1"))>>,
         <<"version", TStr(Str("0.1.0"))>>,
         <<"client", TStr(Caip10("1", Address("0xA")))>>,
         <<"server", TStr(Caip10("1", Address("0xB")))>>,
         <<"createdAt", TStr(Iso(0))>>,
         <<"deadline", TStr(Iso(1))>>,
         <<"intent", TStr(Str("Swap 100 USDC for WBTC"))>>,
         <<"core", Obj(<< <<"kind", TStr(Str("swap@1"))>>, <<"payload", SwapPayload>> >>)>> >>)
LitFullReordered ==
  Obj(<< <<"core", Obj(<< <<"payload", SwapPayloadReordered>>, <<"kind", TStr(Str("swap@1"))>> >>)>>,
         <<"intent", TStr(Str("Swap 100 USDC for WBTC"))>>,
         <<"deadline", TStr(Iso(1))>>,
         <<"createdAt", TStr(Iso(0))>>,
         <<"server", TStr(Caip10("1", Address("0xB")))>>,
         <<"client", TStr(Caip10("1", Address("0xA")))>>,
         <<"version", TStr(Str("0.1.0"))>>,
         <<"mandateId", TStr(Str("01M1"))>> >>)

\* The least the constructor accepts, with lower-case addresses.
LitBare ==
  Obj(<< <<"client", TStr(Caip10("1", ToLowerCase(Address("0xA"))))>>,
         <<"server", TStr(Caip10("1", ToLowerCase(Address("0xB"))))>>,
         <<"deadline", TStr(Iso(1))>> >>)

\* What ulid() may return.
Ulids == {Str("01M1"), Str("01M2")}

\* What a caller passes to new Mandate(): the literal, and what ulid() and
\* new Date() give if the constructor asks for them.
ConstructInputs ==
  {[lit |-> LitFlowOf("0xA", "0xB", n), ulid |-> u, now |-> n] : u \in Ulids, n \in Times}
  \cup {[lit |-> LitBare, ulid |-> u, now |-> n] : u \in Ulids, n \in Times}
  \cup {[lit |-> l, ulid |-> Str("01M1"), now |-> 0] : l \in {LitFull, LitFullReordered}}

\* How callers sign: the scheme and the domain they pass.
SignModes ==
  {[alg |-> "eip191", dom |-> NoDomain],
   [alg |-> "eip712", dom |-> Domain("chain1")],
   [alg |-> "eip712", dom |-> NoDomain]}

\* The domains callers verify under.
VerifyDomains == {NoDomain, Domain("chain1"), Domain("chain5")}


(***************************************************************************)
(* The primitive registry and setCore (part_000 lines 36-47 and 79-85).    *)
(* The registry is the static Map of the class: a sequence of              *)
(* <<kind, def>> in the order the kinds were set.                          *)
(***************************************************************************)

\* The validators callers register.  "SwapSchema" is an object schema: it
\* throws unless the payload is an object with a number chainId and string
\* amountIn and minOut, and returns a new object with these three members.
\* "SwapLoose" asks for a string amountIn only and returns the payload it
\* was given.
Validators == {"SwapSchema", "SwapLoose"}

\* The outcome of validator.parse(payload): a throw, or the heap after and
\* the typed value.
ParseThrown(h, err) == [ok |-> FALSE, err |-> err, h |-> h, v |-> Undefined]
ParseReturned(h, v) == [ok |-> TRUE, err |-> "", h |-> h, v |-> v]

\* def.validator.parse(payload)
ValidatorParse(validator, h, payload) ==
  IF payload.t # "ref" THEN ParseThrown(h, "Invalid payload")
  ELSE IF validator = "SwapSchema"
  THEN IF /\ Field(h, payload.r, "chainId").t = "num"
          /\ Field(h, payload.r, "amountIn").t = "str"
          /\ Field(h, payload.r, "minOut").t = "str"
       THEN LET n == New(h, << <<"chainId", Field(h, payload.r, "chainId")>>,
                               <<"amountIn", Field(h, payload.r, "amountIn")>>,
                               <<"minOut", Field(h, payload.r, "minOut")>> >>)
            IN ParseReturned(n.h, VRef(n.a))
       ELSE ParseThrown(h, "Invalid payload")
  ELSE IF Field(h, payload.r, "amountIn").t = "str"
       THEN ParseReturned(h, payload)
       ELSE ParseThrown(h, "Invalid payload")

\* PrimitiveDef: { kind, validator }
PrimitiveDef(kind, validator) == [kind |-> kind, validator |-> validator]

\* registerPrimitive that sets the entry whether or not the kind is there.
RegisterPrimitiveOverwriting(reg, def) == [ok |-> TRUE, err |-> "", reg |-> Put(reg, def.kind, def)]

\* registerPrimitive that returns, without a word, when the kind is there.
RegisterPrimitiveSilent(reg, def) ==
  [ok |-> TRUE, err |-> "", reg |-> IF HasKey(reg, def.kind) THEN reg ELSE Put(reg, def.kind, def)]

\* static registerPrimitive(def): a throw, or the registry after.
RegisterPrimitive(reg, def) ==
  IF HasKey(reg, def.kind)
  THEN [ok |-> FALSE, err |-> "Primitive already registered: " \o def.kind, reg |-> reg]
  ELSE [ok |-> TRUE, err |-> "", reg |-> Put(reg, def.kind, def)]

\* getPrimitive that hands back whatever the Map gives, a missing def too.
GetPrimitiveUnchecked(reg, kind) ==
  [ok |-> TRUE, err |-> "",
   def |-> IF HasKey(reg, kind) THEN Get(reg, kind) ELSE PrimitiveDef(kind, "")]

\* static getPrimitive(kind): a throw, or the def.
GetPrimitive(reg, kind) ==
  IF ~HasKey(reg, kind)
  THEN [ok |-> FALSE, err |-> "Unknown primitive: " \o kind, def |-> PrimitiveDef(kind, "")]
  ELSE [ok |-> TRUE, err |-> "", def |-> Get(reg, kind)]

\* static hasPrimitive(kind) { return this.registry.has(kind); }
HasPrimitive(reg, kind) == HasKey(reg, kind)

\* lines 83-84: this.m.core = { kind, payload: typed }; return this
AssignCore(h, m, kind, typed) ==
  LET n == New(h, << <<"kind", VStr(Str(kind))>>, <<"payload", typed>> >>)
  IN Returned(SetField(n.h, m, "core", VRef(n.a)), m)

\* setCore that stores the payload first and validates it afterwards.
SetCoreThenValidate(h, reg, m, kind, payload) ==
  IF ~GetPrimitive(reg, kind).ok THEN Thrown(h, GetPrimitive(reg, kind).err)
  ELSE IF ~ValidatorParse(GetPrimitive(reg, kind).def.validator, h, payload).ok
  THEN Thrown(AssignCore(h, m, kind, payload).h, "Invalid payload")
  ELSE AssignCore(ValidatorParse(GetPrimitive(reg, kind).def.validator, h, payload).h, m, kind,
                  ValidatorParse(GetPrimitive(reg, kind).def.validator, h, payload).v)

\* setCore that drops the signatures made over the core it replaces.
SetCoreUnsigned(h, reg, m, kind, payload) ==
  IF ~GetPrimitive(reg, kind).ok THEN Thrown(h, GetPrimitive(reg, kind).err)
  ELSE IF ~ValidatorParse(GetPrimitive(reg, kind).def.validator, h, payload).ok
  THEN Thrown(h, "Invalid payload")
  ELSE AssignCore(DelField(ValidatorParse(GetPrimitive(reg, kind).def.validator, h, payload).h,
                           m, "signatures"),
                  m, kind, ValidatorParse(GetPrimitive(reg, kind).def.validator, h, payload).v)

\* setCore(kind, payload): payload is the value the caller passes.
SetCore(h, reg, m, kind, payload) ==
  IF ~GetPrimitive(reg, kind).ok THEN Thrown(h, GetPrimitive(reg, kind).err)
  ELSE IF ~ValidatorParse(GetPrimitive(reg, kind).def.validator, h, payload).ok
  THEN Thrown(h, ValidatorParse(GetPrimitive(reg, kind).def.validator, h, payload).err)
  ELSE AssignCore(ValidatorParse(GetPrimitive(reg, kind).def.validator, h, payload).h, m, kind,
                  ValidatorParse(GetPrimitive(reg, kind).def.validator, h, payload).v)

\* The outcome of a typed read: a throw, or the heap after (a validator may
\* build its result) and the value returned.
ReadThrown(h, err) == [ok |-> FALSE, err |-> err, h |-> h, v |-> Undefined]

\* core.kind, for whatever value core is.
KindOfCore(h, core) == IF core.t = "ref" THEN Field(h, core.r, "kind") ELSE Undefined
\* core.payload
PayloadOfCore(h, core) == IF core.t = "ref" THEN Field(h, core.r, "payload") ELSE Undefined

\* is(kind): !!core && core.kind === kind
Is(h, m, kind) ==
  ~Falsy(Field(h, m, "core")) /\ KindOfCore(h, Field(h, m, "core")) = VStr(Str(kind))

\* coreAs that does not look at the kind it is told to expect.
CoreAsAnyKind(h, m, schema, expectedKind) ==
  IF Falsy(Field(h, m, "core")) \/ Field(h, m, "core").t # "ref"
  THEN ReadThrown(h, "core missing")
  ELSE ValidatorParse(schema, h, PayloadOfCore(h, Field(h, m, "core")))

\* coreAs(schema, expectedKind?): expectedKind "" stands for none given.
CoreAs(h, m, schema, expectedKind) ==
  IF Falsy(Field(h, m, "core")) \/ Field(h, m, "core").t # "ref"
  THEN ReadThrown(h, "core missing")
  ELSE IF expectedKind # "" /\ KindOfCore(h, Field(h, m, "core")) # VStr(Str(expectedKind))
  THEN ReadThrown(h, "core.kind mismatch: expected " \o expectedKind)
  ELSE ValidatorParse(schema, h, PayloadOfCore(h, Field(h, m, "core")))

\* coreAsKind that hands back core.payload as it is stored.
CoreAsKindUnvalidated(h, reg, m, kind) ==
  IF Falsy(Field(h, m, "core")) \/ KindOfCore(h, Field(h, m, "core")) # VStr(Str(kind))
  THEN ReadThrown(h, "core.kind mismatch: expected " \o kind)
  ELSE IF ~GetPrimitive(reg, kind).ok THEN ReadThrown(h, GetPrimitive(reg, kind).err)
  ELSE ParseReturned(h, PayloadOfCore(h, Field(h, m, "core")))

\* coreAsKind(kind)
CoreAsKind(h, reg, m, kind) ==
  IF Falsy(Field(h, m, "core")) \/ KindOfCore(h, Field(h, m, "core")) # VStr(Str(kind))
  THEN ReadThrown(h, "core.kind mismatch: expected " \o kind)
  ELSE IF ~GetPrimitive(reg, kind).ok THEN ReadThrown(h, GetPrimitive(reg, kind).err)
  ELSE ValidatorParse(GetPrimitive(reg, kind).def.validator, h,
                      PayloadOfCore(h, Field(h, m, "core")))

\* What try { return r } catch { return null } makes of an outcome.
OrNull(r) == IF r.ok THEN r ELSE ParseReturned(r.h, Null)

\* tryCoreAs(schema, expectedKind?)
TryCoreAs(h, m, schema, expectedKind) == OrNull(CoreAs(h, m, schema, expectedKind))

\* The kinds callers name, and the payloads they pass to setCore: the swap
\* of the flow, the same with another amount and a member the schema does
\* not know, a swap whose amountIn is a number, and a string.
Kinds == {"swap@1", "transfer@1"}
SwapPayloadOther ==
  Obj(<< <<"chainId", TNum("1")>>,
         <<"amountIn", TStr(Str("5"))>>,
         <<"minOut", TStr(Str("165000"))>>,
         <<"note", TStr(Str("urgent"))>> >>)
SwapPayloadBad ==
  Obj(<< <<"chainId", TNum("1")>>,
         <<"amountIn", TNum("5")>>,
         <<"minOut", TStr(Str("165000"))>> >>)
Payloads == {SwapPayload, SwapPayloadOther, SwapPayloadBad, TStr(Str("swap"))}
(***************************************************************************)
(* The state.  Read-only methods (verifyRole, verifyAll, mandateHash,      *)
(* toCanonicalString) are the operators above, evaluated on the current    *)
(* state; the calls that build or change objects are the actions.          *)
(***************************************************************************)

VARIABLES
  heap,   \* the objects: a sequence of property lists, addressed by position
  inst,   \* the callers' Mandate variables: the address of this.m, or 0
  docs,   \* the callers' document variables: a (address or 0), and of (the
          \* instance whose toJSON() returned it, while that instance lives)
  opts,   \* the VerifyOptions a third-party verifier is called with
  last,   \* the latest call and its outcome
  ops,    \* how many calls have been made, where a run counts them
  registry, \* Mandate.registry, the static Map: a sequence of <<kind, def>>
  pending,  \* the sign() calls that wait for their wallet
  log,      \* the registerPrimitive calls made so far, and how each ended
  procs,    \* the operating system's processes: the demo and the three agents
  agent     \* the ServerAgent object of the server agent's process

vars == <<heap, inst, docs, opts, last, ops, registry, pending, log, procs, agent>>

\* The callers' variables, in a fixed order.
InstOrder == <<"m1", "m2", "m3">>
DocOrder == <<"d1">>
MSlots == {InstOrder[k] : k \in 1..Len(InstOrder)}
DSlots == {DocOrder[k] : k \in 1..Len(DocOrder)}

NoLast ==
  [op |-> "none", x |-> "", d |-> "", role |-> "", wallet |-> "", alg |-> "",
   dom |-> NoDomain, kind |-> "", ok |-> TRUE, err |-> "", step |-> "", clock |-> 0,
   replaced |-> FALSE, payload |-> NoTree, validator |-> "", value |-> NoTree]

\* Garbage collection: an object no variable leads to is gone, and the
\* objects that remain are numbered in the order the variables lead to them.
RECURSIVE Walk(_, _)
\* The objects a reference leads to, in the order met (with repeats).
Walk(h, a) ==
  IF a = 0 THEN << >>
  ELSE LET refs == SelectSeq(h[a], LAMBDA p : p[2].t \in {"ref", "arr"})
       IN << a >> \o Flat(Tuple([i \in 1..Len(refs) |-> Walk(h, refs[i][2].r)]), << >>)
\* A sequence without its repeats.
Distinct(seq) ==
  LET keep == {i \in 1..Len(seq) : \A j \in 1..(i - 1) : seq[j] # seq[i]}
  IN Tuple([k \in 1..Cardinality(keep) |->
              seq[CHOOSE i \in keep : Cardinality({j \in keep : j < i}) = k - 1]])
Visit(h, a) == Distinct(Walk(h, a))
VisitAll(h, roots) == Distinct(Flat(Tuple([k \in 1..Len(roots) |-> Walk(h, roots[k])]), << >>))

\* The objects that a reference leads to.
Reach(h, a) == {Walk(h, a)[k] : k \in 1..Len(Walk(h, a))}

NewAddr(order, a) ==
  IF \E k \in 1..Len(order) : order[k] = a
  THEN CHOOSE k \in 1..Len(order) : order[k] = a
  ELSE 0
Collect(h, order) ==
  Tuple([k \in 1..Len(order) |->
     Tuple([j \in 1..Len(h[order[k]]) |->
        LET p == h[order[k]][j]
        IN <<p[1], IF p[2].t \in {"ref", "arr"}
                   THEN [p[2] EXCEPT !.r = NewAddr(order, p[2].r)]
                   ELSE p[2]>>])])

Roots(i, d) ==
  Tuple([k \in 1..Len(InstOrder) |-> i[InstOrder[k]]])
  \o Tuple([k \in 1..Len(DocOrder) |-> d[DocOrder[k]].a])

\* The variables as a call leaves them, the objects in the given order.
CommitIn(order, h, i, d, o, l, n) ==
  /\ heap' = Collect(h, order)
  /\ inst' = [x \in MSlots |-> NewAddr(order, i[x])]
  /\ docs' = [y \in DSlots |->
                [a |-> NewAddr(order, d[y].a),
                 of |-> IF d[y].of \in {i[x] : x \in MSlots} THEN NewAddr(order, d[y].of) ELSE 0]]
  /\ opts' = o
  /\ last' = l
  /\ ops' = n

\* The end of a call that may write to the registry or leave a sign() waiting.
CommitAll(h, i, d, o, l, n, reg, pend, lg) ==
  /\ CommitIn(VisitAll(h, Roots(i, d)), h, i, d, o, l, n)
  /\ registry' = reg
  /\ pending' = pend
  /\ log' = lg
  /\ UNCHANGED <<procs, agent>>

\* The end of a call.
Commit(h, i, d, o, l, n) == CommitAll(h, i, d, o, l, n, registry, pending, log)

\* No process has been started and no ServerAgent has been built.
NoProcs == << >>
NoAgent == << >>

\* private static registry = new Map(); no sign() has been called.
NothingRegistered ==
  registry = << >> /\ pending = {} /\ log = << >> /\ procs = NoProcs /\ agent = NoAgent

NoDoc == [a |-> 0, of |-> 0]

\* The state after m1 = new Mandate({ ... }).
Constructed(order, c) ==
  /\ heap = Collect(c.h, order)
  /\ inst = [x \in MSlots |-> IF x = "m1" THEN NewAddr(order, c.a) ELSE 0]
  /\ docs = [y \in DSlots |-> NoDoc]
  /\ opts = NoOptions
  /\ last = [NoLast EXCEPT !.op = "new", !.x = "m1"]
  /\ ops = 0
  /\ NothingRegistered
ConstructedFrom(p, in) ==
  LET c == Constructor(p.h, p.v.r, in.ulid, in.now) IN Constructed(Visit(c.h, c.a), c)
InitWith(in) == ConstructedFrom(Parse(<< >>, in.lit), in)

Init == \E in \in ConstructInputs : InitWith(in)

(***************************************************************************)
(* The calls                                                               *)
(***************************************************************************)

\* x = Mandate.fromObject(d)
FromObjectDone(c, x, d, n) ==
  Commit(c.h, IF c.ok THEN [inst EXCEPT ![x] = c.a] ELSE inst, docs, opts,
         [NoLast EXCEPT !.op = "fromObject", !.x = x, !.d = d, !.ok = c.ok, !.err = c.err], n)
CallFromObject(x, d, ulid, now, n) ==
  /\ docs[d].a # 0
  /\ FromObjectDone(FromObject(heap, docs[d].a, ulid, now), x, d, n)

\* d = x.toJSON()
ToJSONDone(j, x, d, n) ==
  Commit(j.h, inst, [docs EXCEPT ![d] = [a |-> j.v.r, of |-> inst[x]]], opts,
         [NoLast EXCEPT !.op = "toJSON", !.x = x, !.d = d], n)
CallToJSON(x, d, n) ==
  /\ inst[x] # 0
  /\ ToJSONDone(ToJSON(heap, inst[x]), x, d, n)

\* await x.sign(role, wallet, alg, domain)
SignDone(r, x, role, wallet, alg, domain, n) ==
  Commit(r.h, inst, docs, opts,
         [NoLast EXCEPT !.op = "sign", !.x = x, !.role = role, !.wallet = wallet,
                        !.alg = alg, !.dom = domain, !.ok = r.ok, !.err = r.err,
                        !.replaced = (r.ok /\ SigObjOf(heap, inst[x], role).t = "ref")], n)
CallSign(x, role, wallet, alg, domain, n) ==
  /\ inst[x] # 0
  /\ SignDone(Sign(heap, inst[x], role, wallet, alg, domain), x, role, wallet, alg, domain, n)

\* What a holder of a document may do to it: d.intent = ...,
\* d.core.payload.amountIn = ..., delete d.signatures.serverSig,
\* d.signatures.serverSig.mandateHash = computeMandateHash(d).
TamperKinds == {"intent", "amountIn", "serverSig", "mandateHash"}
CanTamper(h, a, kind) ==
  CASE kind = "intent" -> TRUE
    [] kind = "amountIn" ->
         /\ Field(h, a, "core").t = "ref"
         /\ Field(h, Field(h, a, "core").r, "payload").t = "ref"
    [] kind \in {"serverSig", "mandateHash"} -> SigObjOf(h, a, "server").t = "ref"
Tampered(h, a, kind) ==
  CASE kind = "intent" -> SetField(h, a, "intent", VStr(Str("Swap everything")))
    [] kind = "amountIn" ->
         SetField(h, Field(h, Field(h, a, "core").r, "payload").r, "amountIn", VStr(Str("999")))
    [] kind = "serverSig" -> DelField(h, Field(h, a, "signatures").r, "serverSig")
    [] kind = "mandateHash" ->
         SetField(h, SigObjOf(h, a, "server").r, "mandateHash", VStr(ComputeMandateHash(h, a)))
CallTamper(d, kind, n) ==
  /\ docs[d].a # 0
  /\ CanTamper(heap, docs[d].a, kind)
  /\ Commit(Tampered(heap, docs[d].a, kind), inst, docs, opts,
            [NoLast EXCEPT !.op = "tamper", !.d = d, !.kind = kind], n)

(***************************************************************************)
(* SpecSign: one instance, signed and signed again in every way            *)
(***************************************************************************)

SignAny ==
  \E role \in Roles, wallet \in Wallets, mode \in SignModes :
    CallSign("m1", role, wallet, mode.alg, mode.dom, ops)

NextSign == SignAny

SpecSign == Init /\ [][NextSign]_vars

(***************************************************************************)
(* Spec: documents on the wire.  The server signs m1, a snapshot d1 of an  *)
(* instance travels, its holder may change it, the receiver rebuilds m2    *)
(* from it and signs as the client.                                        *)
(***************************************************************************)

\* The number of calls in one run of Spec.
MaxOps == 6

\* The documents the server starts from.
DocInputs ==
  {[lit |-> l, ulid |-> Str("01M1"), now |-> 0] : l \in {LitFlow, LitBare, LitFullReordered}}

InitDocs == \E in \in DocInputs : InitWith(in)

ServerSigns ==
  /\ ops < MaxOps
  /\ \E mode \in SignModes : CallSign("m1", "server", PartyOf("server"), mode.alg, mode.dom, ops + 1)

ClientSigns ==
  /\ ops < MaxOps
  /\ \E mode \in SignModes : CallSign("m2", "client", PartyOf("client"), mode.alg, mode.dom, ops + 1)

Snapshot ==
  /\ ops < MaxOps
  /\ \E x \in {"m1", "m2"} : CallToJSON(x, "d1", ops + 1)

Reconstruct ==
  /\ ops < MaxOps
  /\ CallFromObject("m2", "d1", Str("01M2"), 0, ops + 1)

Tamper ==
  /\ ops < MaxOps
  /\ \E kind \in TamperKinds : CallTamper("d1", kind, ops + 1)

Next == ServerSigns \/ ClientSigns \/ Snapshot \/ Reconstruct \/ Tamper

Spec == InitDocs /\ [][Next]_vars

(***************************************************************************)
(* SpecFlow: the script of examples/ab-flow.ts (clientAgent.ts lines       *)
(* 395-480), statement by statement; ops is the position in the script.    *)
(* m1 is mandateFromB, m2 receivedByA, m3 returnedToB, d1 countersigned.   *)
(***************************************************************************)

\* Wallet.createRandom() twice, then new Mandate({ ... }) at some minute.
FlowInputs ==
  {[lit |-> LitFlowOf(a, b, n), ulid |-> u, now |-> n] :
     a \in Wallets, b \in Wallets, u \in Ulids, n \in Times}

InitFlow == \E in \in FlowInputs : InitWith(in)

\* agentA and agentB: the wallets whose addresses the literal named.
AgentOf(role) ==
  CHOOSE w \in Wallets : Field(heap, inst["m1"], role) = VStr(Caip10("1", Address(w)))

\* Where a rejected flow ends (the catch block).
Rejected == 99

\* y = Mandate.fromObject(x.toJSON())
TransferDone(c, y, n) ==
  Commit(c.h, IF c.ok THEN [inst EXCEPT ![y] = c.a] ELSE inst, docs, opts,
         [NoLast EXCEPT !.op = "transfer", !.x = y, !.ok = c.ok, !.err = c.err],
         IF c.ok THEN n ELSE Rejected)
FromSnapshot(j, ulid, now) == FromObject(j.h, j.v.r, ulid, now)
CallTransfer(x, y, ulid, now, n) ==
  /\ inst[x] # 0
  /\ TransferDone(FromSnapshot(ToJSON(heap, inst[x]), ulid, now), y, n)

\* result = verifyMandateAsThirdParty(d, o), called at minute clock
VerifyDone(r, h, d, o, clock, n) ==
  Commit(h, inst, docs, o,
         [NoLast EXCEPT !.op = "verify", !.d = d, !.ok = r.ok, !.err = r.err,
                        !.step = r.step, !.clock = clock],
         IF r.ok THEN n ELSE Rejected)
CallVerify(d, o, ulid, clock, n) ==
  /\ docs[d].a # 0
  /\ VerifyDone(VerifyMandateAsThirdParty(heap, docs[d].a, o, ulid, clock),
                HeapAfterThirdParty(heap, docs[d].a, ulid, clock), d, o, clock, n)

\* An outcome of the flow's own checks: the message thrown, or "".
CheckDone(err, x, n) ==
  Commit(heap, inst, docs, opts,
         [NoLast EXCEPT !.op = "check", !.x = x, !.ok = (err = ""), !.err = err],
         IF err = "" THEN n ELSE Rejected)

\* line 423: await mandateFromB.signAsServer(agentB, "eip191")
FlowServerSigns ==
  /\ ops = 0
  /\ CallSign("m1", "server", AgentOf("server"), "eip191", NoDomain, 1)

\* line 426: receivedByA = Mandate.fromObject(mandateFromB.toJSON())
FlowSendToA ==
  /\ ops = 1
  /\ \E u \in Ulids, now \in Times : CallTransfer("m1", "m2", u, now, 2)

\* lines 431-441: A verifies the server signature and checks the terms.
TermsError(h, core) ==
  IF ~IsSwapCore(h, core) THEN "unexpected core shape for swap@1"
  ELSE IF Field(h, Field(h, core.r, "payload").r, "amountIn") # VStr(Str("100000000"))
  THEN "terms not acceptable"
  ELSE ""
ClientCheckError(v, j) == IF ~v.ok THEN v.err ELSE TermsError(j.h, Field(j.h, j.v.r, "core"))
FlowClientChecks ==
  /\ ops = 2
  /\ CheckDone(ClientCheckError(VerifyRole(heap, inst["m2"], "server", NoDomain),
                                ToJSON(heap, inst["m2"])), "m2", 3)

\* line 444: await receivedByA.signAsClient(agentA, "eip191")
FlowClientSigns ==
  /\ ops = 3
  /\ CallSign("m2", "client", AgentOf("client"), "eip191", NoDomain, 4)

\* line 447: returnedToB = Mandate.fromObject(receivedByA.toJSON())
FlowReturnToB ==
  /\ ops = 4
  /\ \E u \in Ulids, now \in Times : CallTransfer("m2", "m3", u, now, 5)

\* lines 450-451: returnedToB.verifyRole("client"); verifyRole("server")
FlowServerChecks ==
  /\ ops = 5
  /\ CheckDone(VerifyAll(heap, inst["m3"], NoDomain, NoDomain).err, "m3", 6)

\* line 460: countersigned = returnedToB.toJSON()
FlowSnapshot ==
  /\ ops = 6
  /\ CallToJSON("m3", "d1", 7)

\* lines 464-471: verifyMandateAsThirdParty(countersigned, { ... })
FlowOptions ==
  [NoOptions EXCEPT
     !.requireClient = AddrFromCaip10(Field(heap, docs["d1"].a, "client").s),
     !.requireServer = AddrFromCaip10(Field(heap, docs["d1"].a, "server").s),
     !.primitive = "swap@1"]
FlowThirdParty ==
  /\ ops = 7
  /\ \E u \in Ulids, clock \in Times : CallVerify("d1", FlowOptions, u, clock, 8)

NextFlow ==
  \/ FlowServerSigns
  \/ FlowSendToA
  \/ FlowClientChecks
  \/ FlowClientSigns
  \/ FlowReturnToB
  \/ FlowServerChecks
  \/ FlowSnapshot
  \/ FlowThirdParty

SpecFlow == InitFlow /\ [][NextFlow]_vars

(***************************************************************************)
(* SpecVerifier: a third party is handed a document and options, and       *)
(* calls verifyMandateAsThirdParty once.                                   *)
(***************************************************************************)

\* The document a mandate serialises to after new Mandate(lit) and the
\* signatures of the wallets sw (server) and cw (client); "" does not sign.
ConstructLit(p) == Constructor(p.h, p.v.r, Str("01M1"), 0)
SignedAs(c, role, w, mode) ==
  IF w = "" THEN c ELSE Returned(Sign(c.h, c.a, role, w, mode.alg, mode.dom).h, c.a)
TreeOf(c) == Stringify(c.h, VRef(c.a))
Eip191 == [alg |-> "eip191", dom |-> NoDomain]
Eip712 == [alg |-> "eip712", dom |-> Domain("chain1")]
SignedTree(lit, sw, cw, cmode) ==
  TreeOf(SignedAs(SignedAs(ConstructLit(Parse(<< >>, lit)), "server", sw, Eip191),
                  "client", cw, cmode))

\* A document literal with one member replaced, or removed.
TreePut(tree, k, v) == [tree EXCEPT !.kv = Put(tree.kv, k, v)]
TreeDel(tree, k) == [tree EXCEPT !.kv = Del(tree.kv, k)]
CoreOf(kind, amountIn) ==
  Obj(<< <<"kind", TStr(Str(kind))>>,
         <<"payload", TreePut(SwapPayload, "amountIn", amountIn)>> >>)

\* The documents on the wire: countersigned, signed by the wrong key, half
\* signed, unsigned, changed after signing, with another kind of core, with
\* a zero or numeric amount, with a deadline that is no date or is missing,
\* with lower-case identifiers and no core, countersigned under EIP-712,
\* between the same two parties in the other roles.
WireDocs ==
  { SignedTree(LitFull, "0xB", "0xA", Eip191),
    SignedTree(LitFull, "0xB", "0xB", Eip191),
    SignedTree(LitFull, "0xB", "", Eip191),
    SignedTree(LitFull, "", "", Eip191),
    TreePut(SignedTree(LitFull, "0xB", "0xA", Eip191), "intent", TStr(Str("Swap everything"))),
    SignedTree(TreePut(LitFull, "core", CoreOf("transfer@1", TStr(Str("100000000")))),
               "0xB", "0xA", Eip191),
    SignedTree(TreePut(LitFull, "core", CoreOf("swap@1", TStr(Str("0")))), "0xB", "0xA", Eip191),
    SignedTree(TreePut(LitFull, "core", CoreOf("swap@1", TNum("100000000"))), "0xB", "0xA", Eip191),
    SignedTree(TreePut(LitFull, "deadline", TStr(Str("tomorrow"))), "0xB", "0xA", Eip191),
    TreeDel(SignedTree(LitFull, "0xB", "0xA", Eip191), "deadline"),
    SignedTree(LitBare, "0xB", "0xA", Eip191),
    SignedTree(LitFull, "0xB", "0xA", Eip712),
    SignedTree(LitFlowOf("0xB", "0xA", 0), "0xA", "0xB", Eip191) }

\* The options a caller may pass.
WireOptions ==
  {[requireClient |-> rc, requireServer |-> rs, now |-> now,
    eip712ClientDomain |-> dc, eip712ServerDomain |-> NoDomain, primitive |-> prim] :
     rc \in {EmptyStr, Address("0xA"), Address("0xB")},
     rs \in {EmptyStr, Address("0xA")},
     now \in {-1} \cup Times,
     dc \in {NoDomain, Domain("chain1")},
     prim \in {"", "swap@1"}}

Received(order, p, o) ==
  /\ heap = Collect(p.h, order)
  /\ inst = [x \in MSlots |-> 0]
  /\ docs = [y \in DSlots |-> IF y = "d1" THEN [a |-> NewAddr(order, p.v.r), of |-> 0] ELSE NoDoc]
  /\ opts = o
  /\ last = NoLast
  /\ ops = 0
  /\ NothingRegistered
ReceivedDoc(p, o) == Received(Visit(p.h, p.v.r), p, o)

InitVerifier == \E w \in WireDocs, o \in WireOptions : ReceivedDoc(Parse(<< >>, w), o)

VerifierCalled ==
  /\ ops = 0
  /\ \E clock \in Times : CallVerify("d1", opts, Str("01M2"), clock, 1)

NextVerifier == VerifierCalled

SpecVerifier == InitVerifier /\ [][NextVerifier]_vars

(***************************************************************************)
(* SpecRepeat: one document verified again and again, by any callers, with *)
(* any options, at any minute.  The function is synchronous, so calls made *)
(* "at the same time" run one after another in some order.                 *)
(***************************************************************************)

\* A countersigned mandate; the same without its mandateId, and without its
\* intent; the literal of ab-flow.ts as it is written (no mandateId, no
\* createdAt, no signatures).
RepeatDocs ==
  { SignedTree(LitFull, "0xB", "0xA", Eip191),
    TreeDel(SignedTree(LitFull, "0xB", "0xA", Eip191), "mandateId"),
    TreeDel(SignedTree(LitFull, "0xB", "0xA", Eip191), "intent"),
    LitFlow }

RepeatOptions ==
  { NoOptions,
    [NoOptions EXCEPT !.now = 1],
    [NoOptions EXCEPT !.requireClient = Address("0xB")],
    [NoOptions EXCEPT !.primitive = "swap@1", !.requireServer = Address("0xB")] }

\* What ulid() returns during a call: never the identifier of a mandate
\* that was made before.
FreshUlids == {Str("01M2"), Str("01M3")}

InitRepeat == \E w \in RepeatDocs : ReceivedDoc(Parse(<< >>, w), NoOptions)

\* verifyMandateAsThirdParty(d, o) in a try block: the caller goes on.
VerifiedAgain(r, h, d, o, clock, n) ==
  Commit(h, inst, docs, o,
         [NoLast EXCEPT !.op = "verify", !.d = d, !.ok = r.ok, !.err = r.err,
                        !.step = r.step, !.clock = clock], n)
VerifyAgain ==
  /\ ops < MaxOps
  /\ \E o \in RepeatOptions, u \in FreshUlids, clock \in Times :
       VerifiedAgain(VerifyMandateAsThirdParty(heap, docs["d1"].a, o, u, clock),
                     HeapAfterThirdParty(heap, docs["d1"].a, u, clock), "d1", o, clock, ops + 1)

NextRepeat == VerifyAgain

SpecRepeat == InitRepeat /\ [][NextRepeat]_vars

(***************************************************************************)
(* SpecCore: one instance whose core is set and set again, between         *)
(* registrations of swap@1 and signatures of both parties                  *)
(***************************************************************************)

CoreInputs ==
  {[lit |-> l, ulid |-> Str("01M1"), now |-> 0] : l \in {LitFull, LitBare}}

InitCore == \E in \in CoreInputs : InitWith(in)

\* Mandate.registerPrimitive({ kind, validator })
RegisterDone(r, kind, validator, n, lg) ==
  CommitAll(heap, inst, docs, opts,
            [NoLast EXCEPT !.op = "registerPrimitive", !.kind = kind, !.validator = validator,
                           !.ok = r.ok, !.err = r.err],
            n, r.reg, pending, lg)
CallRegister(kind, validator, n) ==
  RegisterDone(RegisterPrimitive(registry, PrimitiveDef(kind, validator)), kind, validator, n, log)

\* x.setCore(kind, payload), the payload an object literal or a string
SetCoreDone(r, x, kind, payload, n) ==
  Commit(r.h, inst, docs, opts,
         [NoLast EXCEPT !.op = "setCore", !.x = x, !.kind = kind, !.payload = payload,
                        !.ok = r.ok, !.err = r.err], n)
SetCoreWith(p, x, kind, payload, n) ==
  SetCoreDone(SetCore(p.h, registry, inst[x], kind, p.v), x, kind, payload, n)
CallSetCore(x, kind, payload, n) ==
  /\ inst[x] # 0
  /\ SetCoreWith(Parse(heap, payload), x, kind, payload, n)

RegisterSwap == \E validator \in Validators : CallRegister("swap@1", validator, ops)
SetCoreAny == \E kind \in Kinds, payload \in Payloads : CallSetCore("m1", kind, payload, ops)
SignAsParty == \E role \in Roles : CallSign("m1", role, PartyOf(role), "eip191", NoDomain, ops)

NextCore == RegisterSwap \/ SetCoreAny \/ SignAsParty

SpecCore == InitCore /\ [][NextCore]_vars

(***************************************************************************)
(* SpecAsync: sign() is async.  It reads the canonical string and the      *)
(* hash, then awaits the wallet; whatever the callers do to the same       *)
(* instance in the meantime happens between its two halves.                *)
(***************************************************************************)

\* How many sign() calls wait for their wallet at a time.
MaxPending == 2

InitAsync == InitWith([lit |-> LitFull, ulid |-> Str("01M1"), now |-> 0])

\* sign(), up to the await: a throw before it (no domain for eip712), or
\* the call waits with what it has read.
SignSuspended(p, x, role, wallet, alg, domain, n) ==
  CommitAll(heap, inst, docs, opts,
            [NoLast EXCEPT !.op = IF p.ok THEN "await" ELSE "sign", !.x = x, !.role = role,
                           !.wallet = wallet, !.alg = alg, !.dom = domain,
                           !.ok = p.ok, !.err = p.err],
            n, registry,
            IF p.ok THEN pending \cup {[x |-> x, role |-> role, wallet |-> wallet, p |-> p]}
            ELSE pending,
            log)
SignBegin(x, role, wallet, alg, domain, n) ==
  /\ inst[x] # 0
  /\ Cardinality(pending) < MaxPending
  /\ SignSuspended(SignPrepare(heap, inst[x], wallet, alg, domain), x, role, wallet, alg, domain, n)

\* The wallet's promise is fulfilled: lines 140-142 run.
SignResumed(r, c, n) ==
  CommitAll(r.h, inst, docs, opts,
            [NoLast EXCEPT !.op = "sign", !.x = c.x, !.role = c.role, !.wallet = c.wallet,
                           !.alg = c.p.alg, !.ok = TRUE,
                           !.replaced = (SigObjOf(heap, inst[c.x], c.role).t = "ref")],
            n, registry, pending \ {c}, log)
SignEnd(c, n) == SignResumed(SignComplete(heap, inst[c.x], c.role, c.p), c, n)

\* The wallet's promise is rejected: the await throws and sign() with it.
SignRejected(c, n) ==
  CommitAll(heap, inst, docs, opts,
            [NoLast EXCEPT !.op = "sign", !.x = c.x, !.role = c.role, !.wallet = c.wallet,
                           !.alg = c.p.alg, !.ok = FALSE, !.err = "wallet rejected"],
            n, registry, pending \ {c}, log)

AsyncSignModes == {[alg |-> "eip191", dom |-> NoDomain], [alg |-> "eip712", dom |-> NoDomain]}
AsyncPayloads == {SwapPayload, SwapPayloadOther, SwapPayloadBad}

AsyncRegister == CallRegister("swap@1", "SwapLoose", ops)
AsyncSignBegin ==
  \E role \in Roles, mode \in AsyncSignModes :
    SignBegin("m1", role, PartyOf(role), mode.alg, mode.dom, ops)
AsyncSignEnd == \E c \in pending : SignEnd(c, ops)
AsyncSignRejected == \E c \in pending : SignRejected(c, ops)
AsyncSetCore == \E payload \in AsyncPayloads : CallSetCore("m1", "swap@1", payload, ops)

NextAsync == AsyncRegister \/ AsyncSignBegin \/ AsyncSignEnd \/ AsyncSignRejected \/ AsyncSetCore

SpecAsync == InitAsync /\ [][NextAsync]_vars

(***************************************************************************)
(* SpecRegistry: several callers register primitives, in any order.        *)
(* registerPrimitive has no await: each call runs from its first line to   *)
(* its last before another call starts.                                    *)
(***************************************************************************)

\* How many calls of registerPrimitive a run makes.
MaxAttempts == 4

InitRegistry == InitCore

Attempted(r, kind, validator) ==
  RegisterDone(r, kind, validator, ops,
               Append(log, [kind |-> kind, validator |-> validator, ok |-> r.ok]))
Attempt ==
  /\ Len(log) < MaxAttempts
  /\ \E kind \in Kinds, validator \in Validators :
       Attempted(RegisterPrimitive(registry, PrimitiveDef(kind, validator)), kind, validator)

NextRegistry == Attempt

SpecRegistry == InitRegistry /\ [][NextRegistry]_vars

(***************************************************************************)
(* SpecTyped: typed reads of the core.  m1 is made of a document whose     *)
(* core is a swap, a swap without amountIn, a transfer, absent, or a       *)
(* string (empty or not); kinds are registered, the core is set, and the   *)
(* core is read through coreAs, tryCoreAs and coreAsKind.                  *)
(***************************************************************************)

SwapPayloadNoAmount ==
  Obj(<< <<"chainId", TNum("1")>>, <<"minOut", TStr(Str("165000"))>> >>)
CoreLit(kind, payload) == Obj(<< <<"kind", TStr(Str(kind))>>, <<"payload", payload>> >>)

TypedLits ==
  {LitFull, LitBare,
   TreePut(LitFull, "core", CoreLit("swap@1", SwapPayloadNoAmount)),
   TreePut(LitFull, "core", CoreLit("transfer@1", SwapPayloadOther)),
   TreePut(LitFull, "core", TStr(Str("swap@1"))),
   TreePut(LitFull, "core", TStr(EmptyStr))}

InitTyped == \E l \in TypedLits : InitWith([lit |-> l, ulid |-> Str("01M1"), now |-> 0])

\* The kind a caller of coreAs expects: none, or one of the kinds.
ExpectedKinds == {""} \cup Kinds

\* A typed read that threw or returned; what the validator built for it is
\* the caller's, and is kept here as the document it is.
ReadDone(r, op, x, kind, validator, n) ==
  Commit(r.h, inst, docs, opts,
         [NoLast EXCEPT !.op = op, !.x = x, !.kind = kind, !.validator = validator,
                        !.ok = r.ok, !.err = r.err, !.value = Stringify(r.h, r.v)], n)

\* x.coreAs(schema, expectedKind)
CallCoreAs(x, schema, expectedKind, n) ==
  /\ inst[x] # 0
  /\ ReadDone(CoreAs(heap, inst[x], schema, expectedKind), "coreAs", x, expectedKind, schema, n)
\* x.tryCoreAs(schema, expectedKind)
CallTryCoreAs(x, schema, expectedKind, n) ==
  /\ inst[x] # 0
  /\ ReadDone(TryCoreAs(heap, inst[x], schema, expectedKind), "tryCoreAs", x, expectedKind, schema, n)
\* x.coreAsKind(kind)
CallCoreAsKind(x, kind, n) ==
  /\ inst[x] # 0
  /\ ReadDone(CoreAsKind(heap, registry, inst[x], kind), "coreAsKind", x, kind, "", n)

RegisterAny == \E kind \in Kinds, validator \in Validators : CallRegister(kind, validator, ops)
CoreAsAny == \E schema \in Validators, kind \in ExpectedKinds : CallCoreAs("m1", schema, kind, ops)
TryCoreAsAny == \E schema \in Validators, kind \in ExpectedKinds : CallTryCoreAs("m1", schema, kind, ops)
CoreAsKindAny == \E kind \in Kinds : CallCoreAsKind("m1", kind, ops)

NextTyped == RegisterAny \/ SetCoreAny \/ CoreAsAny \/ TryCoreAsAny \/ CoreAsKindAny

SpecTyped == InitTyped /\ [][NextTyped]_vars

(***************************************************************************)
(* SpecDomain: m1 signed under either scheme with every sort of domain     *)
(***************************************************************************)

\* What callers pass as domain: nothing, a domain without chainId, a domain
\* with one.
DomainsPassed == {NoDomain, DomainNoChain, Domain("chain1")}

InitDomain == InitWith([lit |-> LitFull, ulid |-> Str("01M1"), now |-> 0])

SignUnder ==
  \E role \in Roles, alg \in {"eip191", "eip712"}, domain \in DomainsPassed :
    CallSign("m1", role, PartyOf(role), alg, domain, ops)

NextDomain == SignUnder

SpecDomain == InitDomain /\ [][NextDomain]_vars

(***************************************************************************)
(* SpecConstruct: new Mandate(init) / Mandate.fromObject(obj) on objects   *)
(* that have, lack, or have empty the members the constructor asks for     *)
(***************************************************************************)

TNull == [t |-> "null", s |-> EmptyStr, kv |-> << >>]
RequiredMembers == {"client", "server", "deadline"}

\* The objects passed: the literal of the flow and a complete document, and
\* each with one required member, or two, deleted, empty or null, or with a
\* party that is a name and no CAIP-10 identifier.
InitObjects ==
  {LitFlow, LitFull}
  \cup {TreeDel(l, k) : l \in {LitFlow, LitFull}, k \in RequiredMembers}
  \cup {TreePut(LitFull, k, TStr(EmptyStr)) : k \in RequiredMembers}
  \cup {TreePut(LitFull, k, TNull) : k \in RequiredMembers}
  \cup {TreeDel(TreeDel(LitFull, "client"), "deadline"),
        TreeDel(TreeDel(LitFull, "server"), "deadline")}
  \cup {TreePut(LitFull, k, TStr(Str("alice"))) : k \in {"client", "server"}}

InitConstruct == \E w \in InitObjects : ReceivedDoc(Parse(<< >>, w), NoOptions)

Construct ==
  \E x \in {"m1", "m2"}, ulid \in Ulids, now \in Times : CallFromObject(x, "d1", ulid, now, ops)

NextConstruct == Construct

SpecConstruct == InitConstruct /\ [][NextConstruct]_vars

(***************************************************************************)
(* SpecCanon: instances made of documents that say the same in another     *)
(* order of keys, or another thing, or the same with an array in another   *)
(* order                                                                   *)
(***************************************************************************)

Arr(elems) ==
  [t |-> "arr", s |-> EmptyStr,
   kv |-> Tuple([i \in 1..Len(elems) |-> <<ToString(i - 1), elems[i]>>])]

\* One hop of a swap's path, written in either order of its keys.
Hop(token, fee) == Obj(<< <<"token", TStr(Str(token))>>, <<"fee", TNum(fee)>> >>)
HopReordered(token, fee) == Obj(<< <<"fee", TNum(fee)>>, <<"token", TStr(Str(token))>> >>)

\* A document whose payload has the given path, and the same document with
\* every object in it written in another order of keys.
LitPath(path) ==
  TreePut(LitFull, "core", CoreLit("swap@1", TreePut(SwapPayload, "path", path)))
LitPathReordered(path) ==
  TreePut(LitFullReordered, "core",
          Obj(<< <<"payload", TreePut(SwapPayloadReordered, "path", path)>>,
                 <<"kind", TStr(Str("swap@1"))>> >>))

CanonLits ==
  {LitFull, LitFullReordered,
   LitPath(Arr(<< Hop("usdc", "5"), Hop("wbtc", "3") >>)),
   LitPathReordered(Arr(<< HopReordered("usdc", "5"), HopReordered("wbtc", "3") >>)),
   LitPath(Arr(<< Hop("wbtc", "3"), Hop("usdc", "5") >>)),
   LitPath(Arr(<< Hop("usdc", "5") >>)),
   LitPath(Arr(<< Hop("usdc", "3"), Hop("wbtc", "5") >>)),
   LitPath(Arr(<< >>))}

InitCanon == \E l \in CanonLits : InitWith([lit |-> l, ulid |-> Str("01M1"), now |-> 0])

\* x = new Mandate({ ... }), the literal being one of the documents
MadeOf(p, x, n) == FromObjectDone(Constructor(p.h, p.v.r, Str("01M1"), 0), x, "", n)
MakeAnother == \E x \in {"m2", "m3"}, l \in CanonLits : MadeOf(Parse(heap, l), x, ops)

NextCanon == MakeAnother

SpecCanon == InitCanon /\ [][NextCanon]_vars

(***************************************************************************)
(* The processes and their signals: scripts/testFeedback.ts starts the     *)
(* three agents as child processes; each agent can also be started alone.  *)
(* A signal sent to a process is pending until the process takes it; a     *)
(* signal with a listener runs the listener, a signal without one ends the *)
(* process (the default disposition of SIGINT and SIGTERM).                *)
(***************************************************************************)

Signals == {"SIGINT", "SIGTERM"}
Children == {"serverAgent", "clientAgent", "validatorAgent"}
Procs == {"demo"} \cup Children

\* process.on(signal, ...) of each program.
Listeners(p) ==
  CASE p = "serverAgent" -> {"SIGINT"}
    [] p = "clientAgent" -> {"SIGINT", "SIGTERM"}
    [] p = "validatorAgent" -> {"SIGINT", "SIGTERM"}
    [] p = "demo" -> {"SIGINT", "SIGTERM"}

\* A process: st is "none" (never started), "running", "exited" (with
\* code) or "killed" (by the signal by); inbox holds the pending signals,
\* got those taken so far, ran those whose listener has run; timer and
\* emitted are the demo's: its setTimeout, and the children whose 'exit'
\* event it has had.
Running ==
  [st |-> "running", code |-> -1, by |-> "", inbox |-> {}, got |-> {}, ran |-> {},
   timer |-> FALSE, emitted |-> {}]
NotStarted == [Running EXCEPT !.st = "none"]

Alive(ps, p) == ps[p].st = "running"

\* process.exit(code)
Exit(ps, p, code) == [ps EXCEPT ![p].st = "exited", ![p].code = code, ![p].timer = FALSE]

\* child.kill(signal), or kill(2) from outside: nothing for a process
\* that has ended.
Kill(ps, p, signal) ==
  IF Alive(ps, p) THEN [ps EXCEPT ![p].inbox = @ \cup {signal}] ELSE ps

\* The process ends by the signal's default disposition.
Terminated(ps, p, signal) ==
  [ps EXCEPT ![p].st = "killed", ![p].by = signal, ![p].timer = FALSE]

\* The agents' listeners: console.log(...); process.exit(0).
AgentListener(ps, p, signal) == Exit([ps EXCEPT ![p].ran = @ \cup {signal}], p, 0)

\* The demo's listeners: kill the three children with the signal it got,
\* and exit with 0 two seconds later.
DemoListener(ps, signal) ==
  LET a == [ps EXCEPT !["demo"].ran = @ \cup {signal}]
      b == Kill(a, "clientAgent", signal)
      c == Kill(b, "serverAgent", signal)
      d == Kill(c, "validatorAgent", signal)
  IN [d EXCEPT !["demo"].timer = TRUE]

\* The process takes a pending signal.
Taken(ps, p, signal) ==
  LET a == [ps EXCEPT ![p].inbox = @ \ {signal}, ![p].got = @ \cup {signal}]
  IN IF signal \notin Listeners(p) THEN Terminated(a, p, signal)
     ELSE IF p = "demo" THEN DemoListener(a, signal)
     ELSE AgentListener(a, p, signal)

\* The demo's child.on('exit', ...) listeners: the validator's ends the
\* other two agents and the demo itself, with code 1.
OnChildExit(ps, child) ==
  LET a == [ps EXCEPT !["demo"].emitted = @ \cup {child}]
  IN IF child = "validatorAgent"
     THEN Exit(Kill(Kill(a, "serverAgent", "SIGTERM"), "clientAgent", "SIGTERM"), "demo", 1)
     ELSE a

ProcsOnly == UNCHANGED <<heap, inst, docs, opts, last, ops, registry, pending, log, agent>>

\* The agents run, under the demo or each started by hand.
InitShutdown ==
  /\ heap = << >>
  /\ inst = [x \in MSlots |-> 0]
  /\ docs = [y \in DSlots |-> NoDoc]
  /\ opts = NoOptions
  /\ last = NoLast
  /\ ops = 0
  /\ registry = << >> /\ pending = {} /\ log = << >> /\ agent = NoAgent
  /\ \E demo \in {Running, NotStarted} :
       procs = [p \in Procs |-> IF p = "demo" THEN demo ELSE Running]

\* pkill, kill or Ctrl+C sends a signal to a process.
SendSignal ==
  \E p \in Procs, signal \in Signals :
    /\ Alive(procs, p)
    /\ signal \notin procs[p].inbox
    /\ procs' = Kill(procs, p, signal)
    /\ ProcsOnly

TakeSignal ==
  \E p \in Procs :
    /\ Alive(procs, p)
    /\ \E signal \in procs[p].inbox : procs' = Taken(procs, p, signal)
    /\ ProcsOnly

\* setTimeout(() => { ...; process.exit(0) }, 2000) of the demo.
TimerFires ==
  /\ Alive(procs, "demo") /\ procs["demo"].timer
  /\ procs' = Exit(procs, "demo", 0)
  /\ ProcsOnly

\* A child has ended and the demo's 'exit' listener for it runs.
ChildExited ==
  \E child \in Children :
    /\ Alive(procs, "demo")
    /\ procs[child].st \in {"exited", "killed"}
    /\ child \notin procs["demo"].emitted
    /\ procs' = OnChildExit(procs, child)
    /\ ProcsOnly

NextShutdown == SendSignal \/ TakeSignal \/ TimerFires \/ ChildExited

SpecShutdown == InitShutdown /\ [][NextShutdown]_vars

(***************************************************************************)
(* The server agent (src/agent/serverAgent.ts): built from the             *)
(* environment, it answers swap requests with a mandate it has signed, and *)
(* executes the countersigned mandates it is sent.  Messages come from the *)
(* network: any of them may arrive, at any time, any number of times.      *)
(***************************************************************************)

\* process.env as the constructor reads it: "" is a variable that is not
\* set; managerThrows says that new UniswapV3Manager(key) throws (RPC_URL,
\* the router or the token addresses are missing).
Envs ==
  [UNISWAP_DRY_RUN : {"", "true", "1", "false"},
   UNISWAP_PRIVATE_KEY : {"", "0xkey"},
   managerThrows : BOOLEAN]

\* A constructor that takes 'true' alone for dry run.
ServerAgentConstructorTrueOnly(env) ==
  LET dryRun == env.UNISWAP_DRY_RUN = "true"
      live == ~dryRun /\ env.UNISWAP_PRIVATE_KEY # ""
  IN [env |-> env,
      dryRun |-> IF live THEN env.managerThrows ELSE dryRun,
      uniswapManager |-> live /\ ~env.managerThrows,
      pendingRequests |-> {}, outbox |-> {}, swaps |-> 0, executed |-> << >>,
      ipfs |-> << >>, reports |-> << >>]

\* constructor(config): dryRun, and uniswapManager (here: whether there is
\* one).  pendingRequests holds the keys of the Map; outbox the mandates
\* sent; swaps counts the calls of uniswapManager.swap; executed lists the
\* mandates a transaction hash was made for, and where the hash came from;
\* ipfs what pinataService.put has stored; reports the SWAP_EXECUTION
\* messages sent.
ServerAgentConstructor(env) ==
  LET dryRun == env.UNISWAP_DRY_RUN = "true" \/ env.UNISWAP_DRY_RUN = "1"
      live == ~dryRun /\ env.UNISWAP_PRIVATE_KEY # ""
  IN [env |-> env,
      dryRun |-> IF live THEN env.managerThrows ELSE dryRun,
      uniswapManager |-> live /\ ~env.managerThrows,
      pendingRequests |-> {}, outbox |-> {}, swaps |-> 0, executed |-> << >>,
      ipfs |-> << >>, reports |-> << >>]

\* The swap requests of the model: the amount is a decimal or is not, the
\* requester's address is there or is not.
Requests ==
  { [id |-> "r1", amount |-> "100", requesterAddress |-> "0xA"],
    [id |-> "r1", amount |-> "abc", requesterAddress |-> "0xA"],
    [id |-> "r1", amount |-> "100", requesterAddress |-> ""] }

\* (parseFloat(request.amount) * 1e6).toString()
AmountInOf(amount) == IF amount = "100" THEN "100000000" ELSE "NaN"

\* BigInt(x) returns for an integer number and for a string of digits.
BigIntReturns(v) ==
  \/ v.t = "num"
  \/ v.t = "str" /\ v.s \in {EmptyStr, Str("0"), Str("100000000"), Str("165000")}

\* The object provideMandate passes to new Mandate (lines 216-226); of the
\* payload the model keeps chainId, amountIn and minOut.
MandateInit(request) ==
  TreePut(LitFlowOf(request.requesterAddress, "0xB", 0), "core",
          CoreOf("swap@1", TStr(Str(AmountInOf(request.amount)))))

\* mandate.toJSON() of a mandate, as the tree that is sent.
SentTree(j) == Stringify(j.h, j.v)
IdOf(j) == Field(j.h, j.v.r, "mandateId")

\* provideMandate from line 229 on: the mandate is signed; its id is stored
\* and its JSON sent.
MandateProvided(ag, j) ==
  [ag EXCEPT !.pendingRequests = @ \cup {IdOf(j).s}, !.outbox = @ \cup {SentTree(j)}]
MandateSigned(ag, c, s) == MandateProvided(ag, ToJSON(s.h, c.a))
MandateMade(ag, c) == MandateSigned(ag, c, Sign(c.h, c.a, "server", "0xB", "eip191", NoDomain))

\* new Mandate(obj), obj parsed from a message or written as a literal.
FromObjectOf(p, ulid, now) == FromObject(p.h, p.v.r, ulid, now)
NewMandate(p, ulid, now) == Constructor(p.h, p.v.r, ulid, now)

\* provideMandate(request, ctx): what it throws it catches itself.
ProvideMandate(ag, request, ulid, now) ==
  IF request.requesterAddress = "" THEN ag
  ELSE MandateMade(ag, NewMandate(Parse(<< >>, MandateInit(request)), ulid, now))

\* handleSwapRequest(ctx, request)
HandleSwapRequest(ag, request, ulid, now) ==
  ProvideMandate([ag EXCEPT !.pendingRequests = @ \cup {Str(request.id)}], request, ulid, now)

\* What may fail outside the agent while it handles one message: nothing,
\* uniswapManager.swap, one of the three pinataService.put calls, the
\* first ctx.sendText of the call or every one.
Failures == {"", "swap", "putMandate", "putProof", "putRequest", "sendFirst", "sendAll"}

\* The state of a call in progress: the agent so far, whether something
\* has been thrown, the transaction hash in hand ("mock", "swap" or ""),
\* and whether ctx.sendText has been called.
Threw(ag, err, tx, tried) == [ag |-> ag, ok |-> FALSE, err |-> err, tx |-> tx, tried |-> tried]
Went(ag, tx, tried) == [ag |-> ag, ok |-> TRUE, err |-> "", tx |-> tx, tried |-> tried]
Caught(ag, err) == Threw(ag, err, "", FALSE)

\* txHash is set for the mandate.
Executed(ag, mandateId, tx) ==
  Went([ag EXCEPT !.executed = Append(@, [mandateId |-> mandateId, tx |-> tx])], tx, FALSE)

\* pinataService.put(...) of the mandate, of proofData (with
\* swapDetails.dryRun = this.dryRun) and of the validation request.
Stored(ag, what, mandateId, tx) ==
  [ag EXCEPT !.ipfs = Append(@, [what |-> what, mandateId |-> mandateId, tx |-> tx,
                                 dryRun |-> ag.dryRun])]

\* ctx.sendText of a SWAP_EXECUTION message.
Reported(ag, mandateId, status, tx) ==
  [ag EXCEPT !.reports = Append(@, [mandateId |-> mandateId, status |-> status, tx |-> tx])]

\* executeSwapWithMandate, lines 266-315: the checks, and the transaction
\* hash, mock or from uniswapManager.swap.
ObtainHash(ag, h, mandateId, j, fails) ==
  IF Falsy(Field(h, j, "core")) \/ KindOfCore(h, Field(h, j, "core")) # VStr(Str("swap@1"))
  THEN Caught(ag, "Invalid mandate core: expected swap@1")
  ELSE IF mandateId.t # "str" \/ mandateId.s \notin ag.pendingRequests
  THEN Caught(ag, "Original request not found for mandate")
  ELSE IF PayloadOfCore(h, Field(h, j, "core")).t # "ref"
  THEN Caught(ag, "TypeError")
  ELSE IF ~BigIntReturns(Field(h, PayloadOfCore(h, Field(h, j, "core")).r, "amountIn"))
  THEN Caught(ag, "SyntaxError")
  ELSE IF ag.dryRun \/ ~ag.uniswapManager
  THEN Executed(ag, mandateId.s, "mock")
  ELSE IF fails = "swap"
  THEN Caught([ag EXCEPT !.swaps = @ + 1], "swap failed")
  ELSE Executed([ag EXCEPT !.swaps = @ + 1], mandateId.s, "swap")

\* lines 317-428: the mandate and the proof are stored, the result is
\* sent, and the validation is requested (what that last part throws it
\* catches itself).
ProofStored(ag, mandateId, tx) ==
  Stored(Stored(ag, "mandate", mandateId, tx), "proof", mandateId, tx)
StoreAndReport(ag, mandateId, tx, fails) ==
  IF fails = "putMandate" THEN Threw(ag, "put failed", tx, FALSE)
  ELSE IF fails = "putProof" THEN Threw(Stored(ag, "mandate", mandateId, tx), "put failed", tx, FALSE)
  ELSE IF fails \in {"sendFirst", "sendAll"}
  THEN Threw(ProofStored(ag, mandateId, tx), "sendText failed", tx, TRUE)
  ELSE IF fails = "putRequest"
  THEN Went(Reported(ProofStored(ag, mandateId, tx), mandateId, "success", tx), tx, TRUE)
  ELSE Went(Stored(Reported(ProofStored(ag, mandateId, tx), mandateId, "success", tx),
                   "request", mandateId, tx), tx, TRUE)

\* The try block, lines 265-428.
TryBlock(r, mandateId, fails) ==
  IF r.ok THEN StoreAndReport(r.ag, mandateId.s, r.tx, fails) ELSE r

\* The catch block, lines 430-449: a 'failed' SWAP_EXECUTION is sent; when
\* that throws too, the caller catches it.
CatchBlock(r, mandateId, fails) ==
  IF r.ok \/ fails = "sendAll" \/ (fails = "sendFirst" /\ ~r.tried) THEN r
  ELSE [r EXCEPT !.ag = Reported(r.ag, mandateId.s, "failed", "")]

\* executeSwapWithMandate(mandateId, mandateJson, ctx)
ExecuteSwapWithMandate(ag, h, mandateId, j, fails) ==
  CatchBlock(TryBlock(ObtainHash(ag, h, mandateId, j, fails), mandateId, fails), mandateId, fails)

\* handleCountersignedMandate, lines 145-156: the mandate is rebuilt, both
\* signatures are verified, and toJSON() is taken; or something throws.
Refused(err) == [ok |-> FALSE, err |-> err, h |-> << >>, v |-> Undefined]
Accepted(j) == [ok |-> TRUE, err |-> "", h |-> j.h, v |-> j.v]
\* A handler that verifies the server's signature alone.
AfterVerifyServerOnly(c, vc, vs) ==
  IF ~vs.ok THEN Refused(vs.err) ELSE Accepted(ToJSON(c.h, c.a))
AfterVerifyRoles(c, vc, vs) ==
  IF ~vc.ok THEN Refused(vc.err)
  ELSE IF ~vs.ok THEN Refused(vs.err)
  ELSE Accepted(ToJSON(c.h, c.a))
AfterReconstruct(c) ==
  IF ~c.ok THEN Refused(c.err)
  ELSE AfterVerifyRoles(c, VerifyRole(c.h, c.a, "client", NoDomain),
                        VerifyRole(c.h, c.a, "server", NoDomain))
Verification(mandateJson, ulid, now) ==
  AfterReconstruct(FromObjectOf(Parse(<< >>, mandateJson), ulid, now))

\* lines 157-165: the swap is executed, or the error is logged.
AfterVerification(ag, v, fails) ==
  IF v.ok THEN ExecuteSwapWithMandate(ag, v.h, IdOf(v), v.v.r, fails) ELSE Caught(ag, v.err)

\* handleCountersignedMandate(ctx, mandateJson)
HandleCountersignedMandate(ag, mandateJson, ulid, now, fails) ==
  AfterVerification(ag, Verification(mandateJson, ulid, now), fails)

\* The client agent's answer to a mandate it was sent: it countersigns.
CountersignedBy(c, wallet) ==
  TreeOf(SignedAs(c, "client", wallet, Eip191))
Countersigned(tree) == CountersignedBy(FromObjectOf(Parse(<< >>, tree), Str("01M9"), 0), "0xA")

\* A mandate between two other parties, C (server) and D (client), under
\* an id of their choice.
LitOther(id) ==
  TreePut(TreePut(TreePut(LitFull, "mandateId", TStr(Str(id))),
                  "client", TStr(Caip10("1", Address("0xD")))),
          "server", TStr(Caip10("1", Address("0xC"))))
SignedByOthers(lit) ==
  TreeOf(SignedAs(SignedAs(ConstructLit(Parse(<< >>, lit)), "server", "0xC", Eip191),
                  "client", "0xD", Eip191))

\* Other documents that may arrive at any time: a countersigned mandate
\* the agent did not issue (id 01M1), one that C and D signed under the id
\* of a swap request, one with another kind of core, one changed after
\* signing, one countersigned under EIP-712.
Foreign ==
  { SignedTree(LitFull, "0xB", "0xA", Eip191),
    SignedByOthers(LitOther("r1")),
    SignedTree(TreePut(LitFull, "core", CoreOf("transfer@1", TStr(Str("100000000")))),
               "0xB", "0xA", Eip191),
    TreePut(SignedTree(LitFull, "0xB", "0xA", Eip191), "intent", TStr(Str("Swap everything"))),
    SignedTree(LitFull, "0xB", "0xA", Eip712) }

\* What the network may hand to the agent.
Inbound(ag) == Foreign \cup ag.outbox \cup {Countersigned(t) : t \in ag.outbox}

\* How many messages a run hands to the agent.
MaxMessages == 2

AgentOnly == UNCHANGED <<heap, inst, docs, opts, registry, pending, log, procs>>

InitServer ==
  /\ heap = << >>
  /\ inst = [x \in MSlots |-> 0]
  /\ docs = [y \in DSlots |-> NoDoc]
  /\ opts = NoOptions
  /\ last = NoLast
  /\ ops = 0
  /\ registry = << >> /\ pending = {} /\ log = << >> /\ procs = NoProcs
  /\ \E env \in Envs : agent = ServerAgentConstructor(env)

SwapRequestDone(ag, n) ==
  /\ agent' = ag
  /\ last' = [NoLast EXCEPT !.op = "handleSwapRequest"]
  /\ ops' = n + 1
  /\ AgentOnly

SwapRequestedWithin(max) ==
  /\ ops < max
  /\ \E request \in Requests, ulid \in Ulids :
       SwapRequestDone(HandleSwapRequest(agent, request, ulid, 0), ops)

SwapRequested == SwapRequestedWithin(MaxMessages)

CountersignedDone(r, mandateJson, n) ==
  /\ agent' = r.ag
  /\ last' = [NoLast EXCEPT !.op = "handleCountersignedMandate", !.ok = r.ok, !.err = r.err,
                            !.value = mandateJson]
  /\ ops' = n + 1
  /\ AgentOnly

\* Nothing outside the agent is called for a message it refuses.
CountersignedHandled(v, mandateJson, failures, n) ==
  IF v.ok
  THEN \E fails \in failures : CountersignedDone(AfterVerification(agent, v, fails), mandateJson, n)
  ELSE CountersignedDone(AfterVerification(agent, v, ""), mandateJson, n)

CountersignedReceivedWithin(failures, max) ==
  /\ ops < max
  /\ \E mandateJson \in Inbound(agent) :
       CountersignedHandled(Verification(mandateJson, Str("01M9"), 0), mandateJson, failures, ops)

CountersignedReceived == CountersignedReceivedWithin(Failures, MaxMessages)

NextServer == SwapRequested \/ CountersignedReceived

SpecServer == InitServer /\ [][NextServer]_vars

\* The same agent when nothing outside it fails and a message may arrive
\* again: one more delivery than a request and its answer take.
MaxDeliveries == 3

ReplayRequested == SwapRequestedWithin(MaxDeliveries)
ReplayReceived == CountersignedReceivedWithin({""}, MaxDeliveries)

NextReplay == ReplayRequested \/ ReplayReceived

SpecReplay == InitServer /\ [][NextReplay]_vars

(***************************************************************************)
(* SpecClient: the client agent (clientAgent.ts).  A MANDATE message is    *)
(* verified and stored, and a timer is set; when the timer fires, the      *)
(* stored mandate is countersigned and sent back.                          *)
(***************************************************************************)

\* A Map: set(key, value) and get(key).
MapSet(map, key, value) == [k \in DOMAIN map \cup {key} |-> IF k = key THEN value ELSE map[k]]
MapGet(map, key) == IF key \in DOMAIN map THEN map[key] ELSE NoTree

\* A guard that looks at the kind only.
ClientIsSwapCoreByKind(h, o) ==
  ~Falsy(o) /\ KindOfCore(h, o) = VStr(Str("swap@1"))

\* private isSwapCore(x), clientAgent.ts
ClientIsSwapCore(h, o) ==
  /\ ~Falsy(o)
  /\ KindOfCore(h, o) = VStr(Str("swap@1"))
  /\ ~Falsy(PayloadOfCore(h, o))
  /\ PayloadOfCore(h, o).t = "ref"
  /\ Field(h, PayloadOfCore(h, o).r, "amountIn").t = "str"

\* The agent: pendingMandates, from mandateId to the mandate object (as
\* the JSON it would print); the timers set and not yet fired, each with
\* the mandateId it was set for; sent, the MANDATE_COUNTERSIGNED messages;
\* inbox, the MANDATE messages received so far.
ClientAgentConstructor ==
  [pendingMandates |-> << >>, timers |-> << >>, sent |-> << >>, inbox |-> {}]

\* handleMandate from line 131 on: the mandate is stored and the timer set.
MandateStored(ag, h, mandateJson) ==
  [ag EXCEPT !.pendingMandates = MapSet(@, Field(h, mandateJson, "mandateId"),
                                        Stringify(h, VRef(mandateJson))),
             !.timers = Append(@, Field(h, mandateJson, "mandateId"))]

\* handleMandate, lines 118-128: the checks after the reconstruction.
MandateVerified(ag, c, mandateJson, v) ==
  IF ~v.ok THEN Caught(ag, v.err)
  ELSE IF ~ClientIsSwapCore(c.h, Field(c.h, mandateJson, "core"))
  THEN Caught(ag, "unexpected core shape for swap@1")
  ELSE Went(MandateStored(ag, c.h, mandateJson), "", FALSE)

MandateReconstructed(ag, c, mandateJson) ==
  IF ~c.ok THEN Caught(ag, c.err)
  ELSE MandateVerified(ag, c, mandateJson, VerifyRole(c.h, c.a, "server", NoDomain))

\* handleMandate(ctx, mandateJson), mandateJson parsed from the message.
HandleMandate(ag, p, ulid, now) ==
  MandateReconstructed(ag, FromObjectOf(p, ulid, now), p.v.r)

\* countersignMandate, lines 161-175: the mandate rebuilt from the stored
\* object is signed and its JSON sent; the stored object is what the
\* signing has made of it.
CountersignSent(ag, mandateId, h, mandateJson, j, sendFails) ==
  LET kept == [ag EXCEPT !.pendingMandates = MapSet(@, mandateId, Stringify(h, VRef(mandateJson)))]
  IN IF sendFails THEN Caught(kept, "sendText failed")
     ELSE Went([kept EXCEPT !.sent = Append(@, SentTree(j))], "", TRUE)

CountersignSigned(ag, mandateId, c, s, mandateJson, sendFails) ==
  IF ~s.ok THEN Caught(ag, s.err)
  ELSE CountersignSent(ag, mandateId, s.h, mandateJson, ToJSON(s.h, c.a), sendFails)

CountersignRebuilt(ag, mandateId, c, mandateJson, sendFails) ==
  IF ~c.ok THEN Caught(ag, c.err)
  ELSE CountersignSigned(ag, mandateId, c, Sign(c.h, c.a, "client", "0xA", "eip191", NoDomain),
                         mandateJson, sendFails)

\* countersignMandate(mandateId, ctx)
CountersignMandate(ag, mandateId, ulid, now, sendFails) ==
  IF mandateId \notin DOMAIN ag.pendingMandates THEN Caught(ag, "Mandate not found")
  ELSE LET p == Parse(<< >>, MapGet(ag.pendingMandates, mandateId))
       IN CountersignRebuilt(ag, mandateId, FromObjectOf(p, ulid, now), p.v.r, sendFails)

\* A mandate as the server sends it: signed by the server alone.
ServerSigned(lit, sw) == SignedTree(lit, sw, "", Eip191)

\* The MANDATE messages that may arrive: the server's mandate; another
\* under the same id; one between C and D signed by C; one not signed; one
\* signed by a key that is not the server's; one changed after signing;
\* one of another kind; one whose amountIn is a number; one without a
\* payload; one without a deadline.
MandateMessages ==
  { ServerSigned(LitFull, "0xB"),
    ServerSigned(TreePut(LitFull, "intent", TStr(Str("Swap 5 USDC for WBTC"))), "0xB"),
    ServerSigned(LitOther("01M2"), "0xC"),
    LitFull,
    ServerSigned(LitFull, "0xA"),
    TreePut(ServerSigned(LitFull, "0xB"), "intent", TStr(Str("Swap everything"))),
    ServerSigned(TreePut(LitFull, "core", CoreOf("transfer@1", TStr(Str("100000000")))), "0xB"),
    ServerSigned(TreePut(LitFull, "core", CoreOf("swap@1", TNum("100000000"))), "0xB"),
    ServerSigned(TreePut(LitFull, "core", Obj(<< <<"kind", TStr(Str("swap@1"))>> >>)), "0xB"),
    TreeDel(ServerSigned(LitFull, "0xB"), "deadline") }

\* How many messages and timers a run of the client agent takes.
MaxClientSteps == 3

InitClient ==
  /\ heap = << >>
  /\ inst = [x \in MSlots |-> 0]
  /\ docs = [y \in DSlots |-> NoDoc]
  /\ opts = NoOptions
  /\ last = NoLast
  /\ ops = 0
  /\ registry = << >> /\ pending = {} /\ log = << >> /\ procs = NoProcs
  /\ agent = ClientAgentConstructor

ClientDone(r, op, value, n) ==
  /\ agent' = r.ag
  /\ last' = [NoLast EXCEPT !.op = op, !.ok = r.ok, !.err = r.err, !.value = value]
  /\ ops' = n + 1
  /\ AgentOnly

\* A MANDATE message arrives.
MandateReceived ==
  /\ ops < MaxClientSteps
  /\ \E mandateJson \in MandateMessages :
       ClientDone(HandleMandate([agent EXCEPT !.inbox = @ \cup {mandateJson}],
                                Parse(<< >>, mandateJson), Str("01M9"), 0),
                  "handleMandate", mandateJson, ops)

\* The oldest timer fires, 2000 ms after it was set.
CountersignTimerFires ==
  /\ ops < MaxClientSteps
  /\ agent.timers # << >>
  /\ \E sendFails \in BOOLEAN :
       ClientDone(CountersignMandate([agent EXCEPT !.timers = Tail(@)], Head(agent.timers),
                                     Str("01M9"), 0, sendFails),
                  "countersignMandate", MapGet(agent.pendingMandates, Head(agent.timers)), ops)

NextClient == MandateReceived \/ CountersignTimerFires

SpecClient == InitClient /\ [][NextClient]_vars

(***************************************************************************)
(* SpecValidator: the validator agent (validatorAgent.ts).  For each       *)
(* ValidationRequest event it loads the request and the mandate, verifies  *)
(* the mandate as a third party, validates the swap if it can, stores its  *)
(* notes and responds on chain; whatever throws ends the process.          *)
(***************************************************************************)

ValidatorEnvs == [AGENT_VALIDATOR_PRIVATE_KEY : {"", "0xkey"}, managerThrows : BOOLEAN]

\* constructor(): uniswapManager (here: whether there is one).  notes are
\* the objects put to IPFS, responses the respondToValidation calls,
\* exited whether process.exit(1) was called.
ValidatorAgentConstructor(env) ==
  [env |-> env,
   uniswapManager |-> env.AGENT_VALIDATOR_PRIVATE_KEY # "" /\ ~env.managerThrows,
   notes |-> << >>, responses |-> << >>, exited |-> FALSE]

\* swapDetails of a proof or of a validation request, if given.
NoDetails == [given |-> FALSE, amountIn |-> "", expectedTokenInIs0 |-> "undefined"]
SwapDetails ==
  { NoDetails,
    [given |-> TRUE, amountIn |-> "100000000", expectedTokenInIs0 |-> "true"],
    [given |-> TRUE, amountIn |-> "", expectedTokenInIs0 |-> "undefined"],
    [given |-> TRUE, amountIn |-> "abc", expectedTokenInIs0 |-> "true"] }

\* What pinataService.get gives for the request URI: nothing, or the
\* request payload.
ValidationRequestData ==
  { [found |-> FALSE, mandateCid |-> "", proofCid |-> "", swapDetails |-> NoDetails],
    [found |-> TRUE, mandateCid |-> "", proofCid |-> "cidP", swapDetails |-> NoDetails],
    [found |-> TRUE, mandateCid |-> "cidM", proofCid |-> "", swapDetails |-> NoDetails],
    [found |-> TRUE, mandateCid |-> "cidM", proofCid |-> "cidP", swapDetails |-> NoDetails],
    [found |-> TRUE, mandateCid |-> "cidM", proofCid |-> "cidP",
     swapDetails |-> [given |-> TRUE, amountIn |-> "100000000", expectedTokenInIs0 |-> "true"]] }

\* What pinataService.get gives for the proof CID: it throws, or nothing,
\* or the proof data.
NoProof == [throws |-> FALSE, found |-> FALSE, txHash |-> "", swapDetails |-> NoDetails]
ProofData ==
  { [throws |-> TRUE, found |-> FALSE, txHash |-> "", swapDetails |-> NoDetails], NoProof }
  \cup [throws : {FALSE}, found : {TRUE}, txHash : {"0xtx"}, swapDetails : SwapDetails]
  \cup { [throws |-> FALSE, found |-> TRUE, txHash |-> "",
          swapDetails |-> [given |-> TRUE, amountIn |-> "100000000", expectedTokenInIs0 |-> "true"]] }

\* What the chain holds for the transaction hash: no receipt, a reverted
\* transaction, one without a Swap event of the pool, or a swap with its
\* amount and direction.
NoReceipt == [found |-> FALSE, status |-> 0, swapEvent |-> FALSE, amountIn |-> "", tokenInIs0 |-> FALSE]
Receipts ==
  { NoReceipt,
    [found |-> TRUE, status |-> 0, swapEvent |-> FALSE, amountIn |-> "", tokenInIs0 |-> FALSE],
    [found |-> TRUE, status |-> 1, swapEvent |-> FALSE, amountIn |-> "", tokenInIs0 |-> FALSE],
    [found |-> TRUE, status |-> 1, swapEvent |-> TRUE, amountIn |-> "100000000", tokenInIs0 |-> TRUE],
    [found |-> TRUE, status |-> 1, swapEvent |-> TRUE, amountIn |-> "5", tokenInIs0 |-> TRUE],
    [found |-> TRUE, status |-> 1, swapEvent |-> TRUE, amountIn |-> "100000000", tokenInIs0 |-> FALSE] }

\* validateSwap, lines 423-450: the decoded event against what is expected.
SwapErrors(receipt, expectedAmountIn, expectedTokenInIs0) ==
  (IF receipt.amountIn # expectedAmountIn THEN << "Amount in mismatch" >> ELSE << >>)
  \o (IF receipt.tokenInIs0 # expectedTokenInIs0 THEN << "Swap direction mismatch" >> ELSE << >>)

\* validateSwap(txHash, expectedAmountIn, undefined, expectedTokenInIs0),
\* uniswapV3.ts: the errors found; isValid is that there are none.  The
\* pool of the configured pair is taken to exist.
ValidateSwapErrors(receipt, expectedAmountIn, expectedTokenInIs0) ==
  IF ~receipt.found THEN << "Transaction receipt not found" >>
  ELSE IF receipt.status = 0 THEN << "Transaction reverted" >>
  ELSE IF ~receipt.swapEvent THEN << "No Swap event found in transaction logs" >>
  ELSE SwapErrors(receipt, expectedAmountIn, expectedTokenInIs0)
ValidateSwap(receipt, expectedAmountIn, expectedTokenInIs0) ==
  [isValid |-> ValidateSwapErrors(receipt, expectedAmountIn, expectedTokenInIs0) = << >>,
   errors |-> ValidateSwapErrors(receipt, expectedAmountIn, expectedTokenInIs0)]

\* Math.max(0, responseScore - k)
Reduced(score, k) == IF score - k < 0 THEN 0 ELSE score - k

\* lines 132-137: the score the verification gives.
ScoreOfVerification(ver) ==
  IF ~ver.ok THEN 0
  ELSE IF ~ver.signatures.client.ok \/ ~ver.signatures.server.ok THEN 50
  ELSE 100

\* lines 140-145: now > new Date(mandateJson.deadline).getTime()
AfterDeadline(score, now, deadline) ==
  IF Later(now, GetTime(deadline)) THEN Reduced(score, 20) ELSE score

\* The outcome of the swap validation: the score and swapValidationResult
\* ("null", "valid" or "invalid").
Validation(score, result) == [score |-> score, swapValidation |-> result]

\* lines 165-189: BigInt(...), validateSwap and the score.
SwapValidated(score, amountIn, tokenInIs0, receipt) ==
  IF amountIn \notin {"100000000", "5", "0"} THEN Validation(Reduced(score, 10), "null")
  ELSE IF ValidateSwap(receipt, amountIn, tokenInIs0).isValid THEN Validation(score, "valid")
  ELSE Validation(Reduced(score, 30), "invalid")

\* lines 162-164: swapDetails of the proof, else of the request.
WithDetails(score, details, payloadAmountIn, receipt) ==
  IF ~details.given THEN Validation(score, "null")
  ELSE SwapValidated(score, IF details.amountIn # "" THEN details.amountIn ELSE payloadAmountIn,
                     details.expectedTokenInIs0 = "true", receipt)

\* lines 151-204: the swap validation, skipped without a proof CID or a
\* manager.
SwapValidation(ag, score, request, proof, payloadAmountIn, receipt) ==
  IF request.proofCid = "" \/ ~ag.uniswapManager THEN Validation(score, "null")
  ELSE IF proof.throws THEN Validation(Reduced(score, 10), "null")
  ELSE IF ~proof.found \/ proof.txHash = "" THEN Validation(score, "null")
  ELSE WithDetails(score, IF proof.swapDetails.given THEN proof.swapDetails ELSE request.swapDetails,
                   payloadAmountIn, receipt)

\* The member k of an object of a document, or NoTree.
MemberOrNone(tree, k) ==
  IF tree.t = "obj" /\ \E i \in 1..Len(tree.kv) : tree.kv[i][1] = k
  THEN tree.kv[CHOOSE i \in 1..Len(tree.kv) : tree.kv[i][1] = k][2]
  ELSE NoTree

\* process.exit(1) in the outer catch.
ValidatorExit(ag, err) == Caught([ag EXCEPT !.exited = TRUE], err)

\* lines 207-247: the notes are stored and the response is submitted.
Responded(ag, v, fails) ==
  IF fails = "putNotes" THEN ValidatorExit(ag, "put failed")
  ELSE IF fails = "respond"
  THEN ValidatorExit([ag EXCEPT !.notes = Append(@, [decisionScore |-> v.score,
                                                    swapValidation |-> v.swapValidation])],
                     "respondToValidation failed")
  ELSE Went([ag EXCEPT !.notes = Append(@, [decisionScore |-> v.score,
                                           swapValidation |-> v.swapValidation]),
                       !.responses = Append(@, v.score)], "", FALSE)

\* The options the validator passes to verifyMandateAsThirdParty.
SwapPrimitive == [NoOptions EXCEPT !.primitive = "swap@1"]

\* A validator that asks for no primitive.
VerifiedAsThirdPartyAnyCore(p, ulid, clock) ==
  VerifyMandateAsThirdParty(p.h, p.v.r, NoOptions, ulid, clock)

\* line 119: verifyMandateAsThirdParty(mandateJson, { primitive: 'swap@1' })
VerifiedAsThirdParty(p, ulid, clock) ==
  VerifyMandateAsThirdParty(p.h, p.v.r, SwapPrimitive, ulid, clock)

\* lines 104-113: the mandate is loaded and has its parties.
MandateLoadError(mandateJson) ==
  IF mandateJson.t # "obj" THEN "Failed to load mandate from IPFS"
  ELSE IF \E role \in Roles : MemberOrNone(mandateJson, role) \in {NoTree, TStr(EmptyStr)}
  THEN "Mandate missing required client or server fields (CAIP-10)"
  ELSE ""

\* lines 84-101: the request is loaded and names the mandate.
RequestLoadError(requestUri, request) ==
  IF requestUri # "ipfs://request" THEN "Invalid request URI: must be an IPFS URI"
  ELSE IF ~request.found THEN "Failed to load validation request from IPFS"
  ELSE IF request.mandateCid = "" THEN "Mandate CID not found in validation request"
  ELSE ""

\* The amountIn of the mandate's payload, as BigInt() is given it.
PayloadAmountIn(mandateJson) ==
  LET a == MemberOrNone(MemberOrNone(MemberOrNone(mandateJson, "core"), "payload"), "amountIn")
  IN IF a = TStr(Str("100000000")) THEN "100000000" ELSE "other"

\* lines 132-247, once the verification has returned.
Scored(ag, ver, mandateJson, request, proof, receipt, now, fails) ==
  Responded(ag,
            SwapValidation(ag, AfterDeadline(ScoreOfVerification(ver), now,
                                             MemberOrNone(mandateJson, "deadline").s),
                           request, proof, PayloadAmountIn(mandateJson), receipt),
            fails)

\* The mandates that may be stored under the mandate CID: nothing, and
\* documents of every kind.
StoredMandates ==
  { NoTree,
    SignedTree(LitFull, "0xB", "0xA", Eip191),
    SignedTree(LitFull, "0xB", "", Eip191),
    TreePut(SignedTree(LitFull, "0xB", "0xA", Eip191), "intent", TStr(Str("Swap everything"))),
    SignedTree(TreePut(LitFull, "core", CoreOf("transfer@1", TStr(Str("100000000")))),
               "0xB", "0xA", Eip191),
    SignedTree(TreePut(LitFull, "core", CoreOf("swap@1", TStr(Str("0")))), "0xB", "0xA", Eip191),
    SignedTree(TreePut(LitFull, "deadline", TStr(Str("tomorrow"))), "0xB", "0xA", Eip191),
    TreeDel(SignedTree(LitFull, "0xB", "0xA", Eip191), "server") }

\* How many ValidationRequest events a run takes.
MaxValidations == 1

InitValidator ==
  /\ heap = << >>
  /\ inst = [x \in MSlots |-> 0]
  /\ docs = [y \in DSlots |-> NoDoc]
  /\ opts = NoOptions
  /\ last = NoLast
  /\ ops = 0
  /\ registry = << >> /\ pending = {} /\ log = << >> /\ procs = NoProcs
  /\ \E env \in ValidatorEnvs : agent = ValidatorAgentConstructor(env)

ValidationDone(r, mandateJson, clock, n) ==
  /\ agent' = r.ag
  /\ last' = [NoLast EXCEPT !.op = "onValidationRequest", !.ok = r.ok, !.err = r.err,
                            !.value = mandateJson, !.clock = clock]
  /\ ops' = n + 1
  /\ AgentOnly

\* The proof is asked for when there is a proof CID and a manager, and
\* the chain when the proof names a transaction and swap details are given.
ProofAsked(ag, request) == request.proofCid # "" /\ ag.uniswapManager
ChainAsked(request, proof) ==
  /\ ~proof.throws /\ proof.found /\ proof.txHash # ""
  /\ proof.swapDetails.given \/ request.swapDetails.given

\* The verification has returned or thrown.
MandateChecked(ver, mandateJson, request, clock, n) ==
  IF ~ver.ok THEN ValidationDone(ValidatorExit(agent, ver.err), mandateJson, clock, n)
  ELSE \E now \in clock..MaxTime, fails \in {"", "putNotes", "respond"} :
         \E proof \in IF ProofAsked(agent, request) THEN ProofData ELSE {NoProof} :
           \E receipt \in IF ChainAsked(request, proof) THEN Receipts ELSE {NoReceipt} :
             ValidationDone(Scored(agent, ver, mandateJson, request, proof, receipt, now, fails),
                            mandateJson, clock, n)

MandateFetched(mandateJson, request, clock, n) ==
  IF MandateLoadError(mandateJson) # ""
  THEN ValidationDone(ValidatorExit(agent, MandateLoadError(mandateJson)), mandateJson, clock, n)
  ELSE MandateChecked(VerifiedAsThirdParty(Parse(<< >>, mandateJson), Str("01M9"), clock),
                      mandateJson, request, clock, n)

\* A ValidationRequest event arrives.
ValidationRequested ==
  /\ ops < MaxValidations
  /\ ~agent.exited
  /\ \E requestUri \in {"ipfs://request", "https://request", ""}, request \in ValidationRequestData :
       IF RequestLoadError(requestUri, request) # ""
       THEN ValidationDone(ValidatorExit(agent, RequestLoadError(requestUri, request)), NoTree, 0, ops)
       ELSE \E mandateJson \in StoredMandates, clock \in Times :
              MandateFetched(mandateJson, request, clock, ops)

NextValidator == ValidationRequested

SpecValidator == InitValidator /\ [][NextValidator]_vars
(***************************************************************************)
(* What the properties speak of                                            *)
(***************************************************************************)

\* The fields the hash covers.
NonSignatureFields ==
  {"mandateId", "version", "client", "server", "createdAt", "deadline", "intent", "core"}

\* A value as deep equality sees it: the order of keys does not count.
Deep(h, v) == SortTree(Stringify(h, v))

FieldsOf(h, m) == [k \in NonSignatureFields |-> Deep(h, Field(h, m, k))]

\* The mandates new Mandate() makes of the callers' literals.
ConstructedOf(in) == Constructor(Parse(<< >>, in.lit).h, Parse(<< >>, in.lit).v.r, in.ulid, in.now)
Described(c) == [hash |-> MandateHash(c.h, c.a), fields |-> FieldsOf(c.h, c.a)]
OtherMandates == {Described(ConstructedOf(in)) : in \in ConstructInputs}

\* The signatures m holds, as deep values.
SignaturesOf(h, m) == Deep(h, Field(h, m, "signatures"))
SigOf(h, m, role) == Deep(h, SigObjOf(h, m, role))
HasSig(h, m, role) == SigObjOf(h, m, role).t = "ref"

(***************************************************************************)
(* C1                                                                      *)
(***************************************************************************)

\* sign() leaves mandateHash() and toCanonicalString() as they were.
SignKeepsHash ==
  /\ MandateHash(heap', inst'["m1"]) = MandateHash(heap, inst["m1"])
  /\ ToCanonicalString(heap', inst'["m1"]) = ToCanonicalString(heap, inst["m1"])

\* m1, however signed, has the hash of another mandate exactly if the two
\* agree on every non-signature field.
HashIffFields ==
  \A o \in OtherMandates :
    (MandateHash(heap, inst["m1"]) = o.hash) <=> (FieldsOf(heap, inst["m1"]) = o.fields)

\* C1: mandateHash() and toCanonicalString() return the same value before
\* and after every sign(role) call, whatever signatures are attached or
\* replaced, and two mandates have equal hashes if and only if their
\* non-signature fields (mandateId, version, client, server, createdAt,
\* deadline, intent, core) are equal.
C1_HashStability == [][SignKeepsHash]_vars /\ []HashIffFields

\* m1 carries both signatures, one of them just replaced, and there are
\* mandates with its hash and mandates with another.
C1_Witness ==
  /\ last.op = "sign" /\ last.ok
  /\ HasSig(heap, inst["m1"], "client") /\ HasSig(heap, inst["m1"], "server")
  /\ \E o \in OtherMandates : o.hash = MandateHash(heap, inst["m1"])
  /\ \E o \in OtherMandates : o.hash # MandateHash(heap, inst["m1"])

(***************************************************************************)
(* C2                                                                      *)
(***************************************************************************)

\* The callers' Mandate variables that hold an instance.
Insts == {x \in MSlots : inst[x] # 0}

\* The text the role's signature was made over: the canonical string of the
\* mandate when it was signed.
SignedText(h, m, role) == Field(h, SigObjOf(h, m, role).r, "signature").s[1].a

\* The role's Signature object is as sign() wrote it: a signature, under the
\* scheme it names, with the hash of the text that was signed.
AsSigned(h, m, role) ==
  /\ HasSig(h, m, role)
  /\ Field(h, SigObjOf(h, m, role).r, "signature").t = "str"
  /\ IsSignature(Field(h, SigObjOf(h, m, role).r, "signature").s)
  /\ Field(h, SigObjOf(h, m, role).r, "alg")
       = VStr(Str(Field(h, SigObjOf(h, m, role).r, "signature").s[1].c[3]))
  /\ Field(h, SigObjOf(h, m, role).r, "mandateHash") = VStr(Keccak256(SignedText(h, m, role)))

\* The content of m is no longer what the role signed.
ChangedSinceSigned(h, m, role) == ToCanonicalString(h, m) # SignedText(h, m, role)

\* C2: when a mandate holds a role's signature as sign() wrote it and some
\* non-signature field no longer has the value it had at signing time,
\* verifyRole(role), under any domain, fails with "<role>Sig.mandateHash
\* mismatch" and with no other error: the hashes are compared before the
\* signer is recovered.
C2_TamperDetection ==
  \A x \in Insts, role \in Roles, dom \in VerifyDomains :
    (AsSigned(heap, inst[x], role) /\ ChangedSinceSigned(heap, inst[x], role))
      => LET v == VerifyRole(heap, inst[x], role, dom)
         IN ~v.ok /\ v.err = role \o "Sig.mandateHash mismatch"

\* m2 was rebuilt from a document that was changed after the server signed.
C2_Witness ==
  /\ last.op = "fromObject" /\ last.ok
  /\ AsSigned(heap, inst["m2"], "server")
  /\ ChangedSinceSigned(heap, inst["m2"], "server")
  /\ FieldsOf(heap, inst["m2"]) # FieldsOf(heap, inst["m1"])

(***************************************************************************)
(* C3                                                                      *)
(***************************************************************************)

\* The wallet is the one the role's CAIP-10 identifier names.
WalletOfRole(h, m, role, wallet) ==
  ToLowerCase(Address(wallet)) = ToLowerCase(AddrFromCaip10(Field(h, m, role).s))

\* C3: after sign(role, wallet, alg, domain) has returned, for either role
\* and either of eip191 and eip712, with the wallet that the role's CAIP-10
\* identifier names, verifyRole(role) under the same domain returns ok, the
\* wallet's address as recovered, the hash recomputed from the mandate, and
\* the algorithm.
C3_SignThenVerify ==
  (last.op = "sign" /\ last.ok /\ WalletOfRole(heap, inst["m1"], last.role, last.wallet))
    => LET v == VerifyRole(heap, inst["m1"], last.role, last.dom)
       IN /\ v.ok
          /\ v.recovered = Address(last.wallet)
          /\ v.recomputedHash = MandateHash(heap, inst["m1"])
          /\ v.alg = Str(last.alg)

\* The client has just signed under EIP-712 a mandate that names it by its
\* checksummed address, over an earlier signature of its own.
C3_Witness ==
  /\ last.op = "sign" /\ last.ok /\ last.role = "client" /\ last.alg = "eip712"
  /\ last.replaced
  /\ WalletOfRole(heap, inst["m1"], "client", last.wallet)
  /\ AddrFromCaip10(Field(heap, inst["m1"], "client").s) = Address(last.wallet)

(***************************************************************************)
(* C5                                                                      *)
(***************************************************************************)

\* No key occurs twice in an object.
KeysOnce(o) == \A i, j \in 1..Len(o) : o[i][1] = o[j][1] => i = j
KeysOf(o) == {o[i][1] : i \in 1..Len(o)}

\* this.m has one signatures member at most, and it one entry per role.
OneSigPerRole(h, m) ==
  /\ KeysOnce(h[m])
  /\ Field(h, m, "signatures").t = "ref"
       => /\ KeysOnce(h[Field(h, m, "signatures").r])
          /\ KeysOf(h[Field(h, m, "signatures").r]) \subseteq {"clientSig", "serverSig"}

OtherRole(role) == IF role = "client" THEN "server" ELSE "client"

\* The Signature object sign() makes of what the wallet returns.
SigTree(p) ==
  Obj(<< <<"alg", TStr(Str(p.alg))>>,
         <<"mandateHash", TStr(p.mandateHash)>>,
         <<"signature", TStr(p.signature)>> >>)

\* A sign() that returns leaves the new signature in the role's place and
\* the other role's place as it was; one that throws changes neither.
SignReplacesOwn ==
  IF last'.ok
  THEN /\ SigOf(heap', inst'["m1"], last'.role)
            = SigTree(SignPrepare(heap, inst["m1"], last'.wallet, last'.alg, last'.dom))
       /\ SigOf(heap', inst'["m1"], OtherRole(last'.role))
            = SigOf(heap, inst["m1"], OtherRole(last'.role))
  ELSE SignaturesOf(heap', inst'["m1"]) = SignaturesOf(heap, inst["m1"])

\* C5: after any sequence of sign calls the mandate holds at most one
\* clientSig and at most one serverSig; a sign(role, ...) that returns puts
\* the new signature in the place of that role's earlier one and leaves
\* the other role's signature unchanged.
C5_OneSignaturePerRole == []OneSigPerRole(heap, inst["m1"]) /\ [][SignReplacesOwn]_vars

\* The server has signed a second time, under another scheme than before,
\* a mandate that also holds the client's signature.
C5_Witness ==
  /\ last.op = "sign" /\ last.ok /\ last.replaced /\ last.role = "server"
  /\ HasSig(heap, inst["m1"], "client")
  /\ Field(heap, SigObjOf(heap, inst["m1"], "server").r, "alg") = VStr(Str("eip712"))
  /\ Field(heap, SigObjOf(heap, inst["m1"], "client").r, "alg") = VStr(Str("eip191"))

(***************************************************************************)
(* C4                                                                      *)
(***************************************************************************)

BothVerify(h, m) ==
  /\ VerifyRole(h, m, "server", NoDomain).ok
  /\ VerifyRole(h, m, "client", NoDomain).ok

\* C4: in the flow of ab-flow.ts (the server signs, the mandate goes to the
\* client through toJSON and fromObject, the client signs the rebuilt copy,
\* and that copy goes back through toJSON and fromObject) no step is
\* rejected; the server's signature verifies on the client's copy before
\* and after the client signs it; both roles verify on the final copy;
\* and the third party's verification of its snapshot succeeds at any
\* minute of the clock.
C4_DualSignatureFlow ==
  /\ ops # Rejected
  /\ ops \in 2..4 => VerifyRole(heap, inst["m2"], "server", NoDomain).ok
  /\ ops >= 4 => BothVerify(heap, inst["m2"])
  /\ ops >= 5 => BothVerify(heap, inst["m3"])
  /\ ops = 7 => \A u \in Ulids, clock \in Times :
                  VerifyMandateAsThirdParty(heap, docs["d1"].a, FlowOptions, u, clock).ok
  /\ ops = 8 => last.op = "verify" /\ last.ok /\ last.step = "done"

\* The flow has run to its end.
C4_Witness ==
  /\ ops = 8 /\ last.op = "verify" /\ last.ok
  /\ HasSig(heap, inst["m3"], "client") /\ HasSig(heap, inst["m3"], "server")
  /\ BothVerify(heap, inst["m3"])

(***************************************************************************)
(* C6                                                                      *)
(***************************************************************************)

\* m.toJSON(), Mandate.fromObject of it, and that mandate's toJSON().
Rebuild(j, ulid, now) == FromObject(j.h, j.v.r, ulid, now)
RoundTrip(h, m, ulid, now) ==
  LET j == ToJSON(h, m)
      c == Rebuild(j, ulid, now)
      k == ToJSON(c.h, c.a)
  IN /\ c.ok
     /\ Deep(k.h, k.v) = Deep(j.h, j.v)
     /\ Stringify(k.h, k.v) = Stringify(j.h, j.v)
     /\ MandateHash(c.h, c.a) = MandateHash(h, m)

\* C6: for every mandate m, with no signature, one or both, whatever
\* ulid() and the clock give when it is rebuilt, fromObject(m.toJSON())
\* returns a mandate whose toJSON() is deeply equal to m.toJSON(), member
\* for member in the same order, and whose mandateHash() is that of m.
C6_RoundTrip == \A u \in Ulids, now \in Times : RoundTrip(heap, inst["m1"], u, now)

\* A mandate that holds both signatures, one under each scheme.
C6_Witness ==
  /\ HasSig(heap, inst["m1"], "client") /\ HasSig(heap, inst["m1"], "server")
  /\ Field(heap, SigObjOf(heap, inst["m1"], "client").r, "alg") = VStr(Str("eip712"))
  /\ Field(heap, SigObjOf(heap, inst["m1"], "server").r, "alg") = VStr(Str("eip191"))
  /\ SignaturesOf(ToJSON(heap, inst["m1"]).h, ToJSON(heap, inst["m1"]).v.r)
       = SignaturesOf(heap, inst["m1"])

(***************************************************************************)
(* C7                                                                      *)
(***************************************************************************)

\* What the callers of a mandate can see of it.
Observed(h, m) ==
  [json |-> Stringify(h, VRef(m)),
   hash |-> MandateHash(h, m),
   verify |-> [role \in Roles |-> [dom \in VerifyDomains |-> VerifyRole(h, m, role, dom)]]]

\* A write to the snapshot d1 leaves the mandate it was taken of as it was.
TamperLeavesMandate ==
  (last'.op = "tamper" /\ docs["d1"].of # 0)
    => \E x \in Insts :
         /\ inst[x] = docs["d1"].of
         /\ inst'[x] = docs'["d1"].of
         /\ Observed(heap', inst'[x]) = Observed(heap, inst[x])

\* The snapshot d1 and the mandate it was taken of share no object.
SnapshotApart ==
  docs["d1"].of # 0 => Reach(heap, docs["d1"].a) \cap Reach(heap, docs["d1"].of) = {}

\* Two snapshots of one mandate are equal and share no object.
TwoSnapshots(h, m) ==
  LET j == ToJSON(h, m)
      k == ToJSON(j.h, m)
  IN /\ Stringify(k.h, j.v) = Stringify(k.h, k.v)
     /\ Reach(k.h, j.v.r) \cap Reach(k.h, k.v.r) = {}
     /\ Reach(k.h, j.v.r) \cap Reach(k.h, m) = {}
     /\ Reach(k.h, k.v.r) \cap Reach(k.h, m) = {}

\* C7: toJSON() returns a deep copy: a snapshot and the mandate it was
\* taken of share no object, and neither do two snapshots of one mandate;
\* a write to any part of a snapshot (intent, core.payload.amountIn, a
\* signature's fields) changes neither what toJSON() and mandateHash()
\* return for that mandate afterwards nor any result of verifyRole.
C7_SnapshotIndependence ==
  /\ [][TamperLeavesMandate]_vars
  /\ [](SnapshotApart /\ \A x \in Insts : TwoSnapshots(heap, inst[x]))

\* A snapshot of a signed mandate has had its payload written to.
C7_Witness ==
  /\ last.op = "tamper" /\ last.kind = "amountIn"
  /\ docs["d1"].of # 0
  /\ HasSig(heap, docs["d1"].of, "server")
  /\ Stringify(heap, VRef(docs["d1"].a)) # Stringify(heap, VRef(docs["d1"].of))

(***************************************************************************)
(* C8                                                                      *)
(***************************************************************************)

\* The document and the minute of the call that was made.
TPDoc == docs["d1"].a
TPNow == IF opts.now = -1 THEN last.clock ELSE opts.now
Rebuilt == FromObject(heap, TPDoc, Str("01M2"), last.clock)
DomainFor(role) == IF role = "client" THEN opts.eip712ClientDomain ELSE opts.eip712ServerDomain
RequiredFor(role) == IF role = "client" THEN opts.requireClient ELSE opts.requireServer
RoleVerified(role) == VerifyRole(Rebuilt.h, Rebuilt.a, role, DomainFor(role))
PartyAddress(role) == ToLowerCase(AddrFromCaip10(Field(heap, TPDoc, role).s))

\* The steps, each by itself.
ReconstructFails == ~Rebuilt.ok
SignaturesFail == \E role \in Roles : ~RoleVerified(role).ok
IdentityFailsFor(role) ==
  RequiredFor(role) # EmptyStr /\ PartyAddress(role) # ToLowerCase(RequiredFor(role))
IdentityFails == \E role \in Roles : IdentityFailsFor(role)
DeadlinePassed == \E n \in Minutes : Field(heap, TPDoc, "deadline") = VStr(Iso(n)) /\ TPNow > n
KindFails ==
  /\ opts.primitive = "swap@1"
  /\ IF IsSwapCore(heap, Field(heap, TPDoc, "core"))
     THEN Field(heap, Field(heap, Field(heap, TPDoc, "core").r, "payload").r, "amountIn")
            = VStr(Str("0"))
     ELSE TRUE

FirstFailing ==
  IF ReconstructFails THEN "reconstruct"
  ELSE IF SignaturesFail THEN "signatures"
  ELSE IF IdentityFails THEN "identity"
  ELSE IF DeadlinePassed THEN "deadline"
  ELSE IF KindFails THEN "primitive"
  ELSE "done"

\* The error of the step that fails first.
FirstError ==
  CASE FirstFailing = "reconstruct" -> Rebuilt.err
    [] FirstFailing = "signatures" ->
         IF ~RoleVerified("client").ok THEN RoleVerified("client").err
         ELSE RoleVerified("server").err
    [] FirstFailing = "identity" ->
         IF IdentityFailsFor("client") THEN "client mismatch" ELSE "server mismatch"
    [] FirstFailing = "deadline" -> "mandate deadline has passed"
    [] FirstFailing = "primitive" ->
         IF IsSwapCore(heap, Field(heap, TPDoc, "core")) THEN "bad amountIn"
         ELSE "unexpected core shape for swap@1"
    [] OTHER -> ""

\* The receipt of the call that was made.
Receipt == VerifyMandateAsThirdParty(heap, TPDoc, opts, Str("01M2"), last.clock)
ReceiptAsDescribed ==
  /\ Receipt.ok
  /\ Receipt.parties = [client |-> PartyAddress("client"), server |-> PartyAddress("server")]
  /\ Receipt.signatures.client = RoleVerified("client") /\ RoleVerified("client").ok
  /\ Receipt.signatures.server = RoleVerified("server") /\ RoleVerified("server").ok
  /\ Receipt.mandateHash = ComputeMandateHash(heap, TPDoc)
  /\ Receipt.core = Stringify(heap, Field(heap, TPDoc, "core"))

\* C8: verifyMandateAsThirdParty fails at the first step that fails, the
\* steps taken in the order reconstruction, both signatures, the required
\* addresses, the deadline, the kind of payload asked for, and with that
\* step's error; it returns when no step fails, and then the receipt holds
\* the parties' lower-case addresses, both roles' verification results, the
\* mandate's hash and its core.
C8_StepOrder ==
  last.op = "verify"
    => /\ last.step = FirstFailing
       /\ last.err = FirstError
       /\ last.ok <=> (FirstFailing = "done")
       /\ Receipt.ok = last.ok
       /\ last.ok => ReceiptAsDescribed

\* A call that failed on a required address although the deadline had
\* passed and the payload was not of the kind asked for.
C8_Witness ==
  /\ last.op = "verify" /\ ~last.ok /\ last.step = "identity"
  /\ DeadlinePassed /\ KindFails

(***************************************************************************)
(* C9                                                                      *)
(***************************************************************************)

\* The domains a caller of verifyAll passes for a role.
AllDomains == {NoDomain, Domain("chain1")}

VerifyAllAsRoles(h, m, dc, ds) ==
  LET c == VerifyRole(h, m, "client", dc)
      s == VerifyRole(h, m, "server", ds)
      all == VerifyAll(h, m, dc, ds)
  IN /\ all.ok <=> (c.ok /\ s.ok)
     /\ all.ok => all.client = c /\ all.server = s
     /\ ~c.ok => all.err = c.err /\ all.role = "client"
     /\ (c.ok /\ ~s.ok) => all.err = s.err /\ all.role = "server"
     /\ ~all.ok => ~all.client.ok /\ ~all.server.ok

\* C9: verifyAll(dc, ds) returns, with the results of verifyRole("client",
\* dc) and verifyRole("server", ds), exactly when both succeed; otherwise
\* it throws the error of the role that fails, the client's when both
\* fail, and no result of either role is returned.
C9_VerifyAll ==
  \A dc \in AllDomains, ds \in AllDomains : VerifyAllAsRoles(heap, inst["m1"], dc, ds)

\* Both roles fail, each with an error of its own.
C9_Witness ==
  /\ HasSig(heap, inst["m1"], "client") /\ HasSig(heap, inst["m1"], "server")
  /\ ~VerifyRole(heap, inst["m1"], "client", NoDomain).ok
  /\ ~VerifyRole(heap, inst["m1"], "server", NoDomain).ok
  /\ VerifyRole(heap, inst["m1"], "client", NoDomain).err
       # VerifyRole(heap, inst["m1"], "server", NoDomain).err
  /\ VerifyAll(heap, inst["m1"], NoDomain, NoDomain).err
       = VerifyRole(heap, inst["m1"], "client", NoDomain).err

(***************************************************************************)
(* C10                                                                     *)
(***************************************************************************)

NoSignatures(h, m) == Falsy(Field(h, m, "signatures"))
RoleSigAbsent(h, m, role) ==
  /\ Field(h, m, "signatures").t = "ref"
  /\ ~HasKey(h[Field(h, m, "signatures").r], SigKey(role))

\* C10: verifyRole(role), under any domain, fails with "no signatures" when
\* the mandate has no signatures member and with "<role>Sig missing" when
\* that member has no entry for the role, whether or not the other role's
\* signature is there and whatever the content of the mandate is now:
\* nothing is compared or recovered before the signature is looked for.
C10_SignatureMissing ==
  \A x \in Insts, role \in Roles, dom \in VerifyDomains :
    LET v == VerifyRole(heap, inst[x], role, dom)
    IN /\ NoSignatures(heap, inst[x]) => ~v.ok /\ v.err = "no signatures"
       /\ RoleSigAbsent(heap, inst[x], role) => ~v.ok /\ v.err = role \o "Sig missing"

\* A copy that holds the server's signature, over other content than it
\* has now, and no signature of the client.
C10_Witness ==
  /\ inst["m2"] # 0
  /\ RoleSigAbsent(heap, inst["m2"], "client")
  /\ AsSigned(heap, inst["m2"], "server")
  /\ ChangedSinceSigned(heap, inst["m2"], "server")
  /\ VerifyRole(heap, inst["m2"], "client", NoDomain).err = "clientSig missing"

(***************************************************************************)
(* C11                                                                     *)
(***************************************************************************)

\* The key, the scheme and the domain the role's signature was made with.
SignerOf(h, m, role) == Field(h, SigObjOf(h, m, role).r, "signature").s[1].c[2]
SchemeOf(h, m, role) == Field(h, SigObjOf(h, m, role).r, "signature").s[1].c[3]
DomainOf(h, m, role) == Field(h, SigObjOf(h, m, role).r, "signature").s[1].c[4]

\* The role's signature is over the mandate as it is now.
Current(h, m, role) == AsSigned(h, m, role) /\ ~ChangedSinceSigned(h, m, role)

SignerChecked(h, m, role, dom) ==
  LET v == VerifyRole(h, m, role, dom)
      invalid == ~v.ok /\ v.err = role \o " signature invalid"
  IN /\ v.ok => /\ ToLowerCase(v.recovered) = ToLowerCase(AddrFromCaip10(Field(h, m, role).s))
                /\ WalletOfRole(h, m, role, SignerOf(h, m, role))
     /\ ( /\ Current(h, m, role)
          /\ ~WalletOfRole(h, m, role, SignerOf(h, m, role))
          /\ SchemeOf(h, m, role) = "eip191" \/ ~DomainMissing(dom) ) => invalid
     /\ ( /\ Current(h, m, role)
          /\ SchemeOf(h, m, role) = "eip712"
          /\ ~DomainMissing(dom)
          /\ dom.id # DomainOf(h, m, role) ) => invalid

\* C11: verifyRole(role, domain) returns only when the address it recovers
\* equals, letter case ignored, the address part of the role's CAIP-10
\* identifier, which is so only for a signature made with that party's key;
\* a signature over the current content made with another key (the other
\* party's included), and an EIP-712 signature verified under another
\* domain than it was made under, fail with "<role> signature invalid".
C11_SignerMustBeParty ==
  \A role \in Roles, dom \in VerifyDomains : SignerChecked(heap, inst["m1"], role, dom)

\* The client's key has signed in the server's place, under EIP-712, and in
\* its own.
C11_Witness ==
  /\ Current(heap, inst["m1"], "server") /\ Current(heap, inst["m1"], "client")
  /\ SignerOf(heap, inst["m1"], "server") = "0xA"
  /\ SchemeOf(heap, inst["m1"], "server") = "eip712"
  /\ VerifyRole(heap, inst["m1"], "server", Domain("chain1")).err = "server signature invalid"
  /\ VerifyRole(heap, inst["m1"], "client", Domain("chain1")).ok
  /\ ~VerifyRole(heap, inst["m1"], "client", Domain("chain5")).ok

(***************************************************************************)
(* C12                                                                     *)
(***************************************************************************)

\* The call that was made got as far as the deadline: the document was
\* rebuilt, both signatures verified, no required address differed.
ReachedDeadline ==
  last.op = "verify" /\ ~ReconstructFails /\ ~SignaturesFail /\ ~IdentityFails

\* The document's deadline is minute n.
DeadlineIs(n) == Field(heap, TPDoc, "deadline") = VStr(Iso(n))

\* C12: when verifyMandateAsThirdParty gets as far as the deadline (both
\* signatures verify) and the deadline is a date, it throws "mandate deadline
\* has passed" if the reference time, opts.now or else the time of the call,
\* is later than the deadline, and goes on to the next step if the reference
\* time is the deadline or earlier.
C12_Deadline ==
  ReachedDeadline
    => \A n \in Minutes :
         DeadlineIs(n)
           => IF TPNow > n
              THEN ~last.ok /\ last.step = "deadline" /\ last.err = "mandate deadline has passed"
              ELSE last.step \in {"primitive", "done"}

\* A countersigned mandate verified, with no opts.now, after its deadline.
C12_Witness ==
  /\ ReachedDeadline /\ opts.now = -1
  /\ \E n \in Minutes : DeadlineIs(n) /\ last.clock > n
  /\ RoleVerified("client").ok /\ RoleVerified("server").ok
  /\ last.step = "deadline"

(***************************************************************************)
(* C13                                                                     *)
(***************************************************************************)

ReachedIdentity == last.op = "verify" /\ ~ReconstructFails /\ ~SignaturesFail

\* The address required of the role is given and is, letter case ignored,
\* another than the one in the role's identifier.
RequiredDiffers(role) ==
  /\ RequiredFor(role) # EmptyStr
  /\ ToLowerCase(RequiredFor(role)) # ToLowerCase(AddrFromCaip10(Field(heap, TPDoc, role).s))

\* C13: when both signatures verify, verifyMandateAsThirdParty throws
\* "client mismatch" if requireClient is given and differs, letter case
\* ignored, from the address in the client identifier, else "server
\* mismatch" if requireServer is given and so differs from the server's;
\* a party whose required address is not given, or is the same but for
\* letter case, is not a cause of failure, so with neither given no
\* mandate fails on identity, whoever its two parties are.
C13_Identity ==
  ReachedIdentity
    => /\ RequiredDiffers("client")
            => ~last.ok /\ last.step = "identity" /\ last.err = "client mismatch"
       /\ (~RequiredDiffers("client") /\ RequiredDiffers("server"))
            => ~last.ok /\ last.step = "identity" /\ last.err = "server mismatch"
       /\ (~RequiredDiffers("client") /\ ~RequiredDiffers("server"))
            => last.step \in {"deadline", "primitive", "done"}

\* The server's address was required of the client of a countersigned
\* mandate whose deadline had not passed.
C13_Witness ==
  /\ ReachedIdentity /\ last.step = "identity" /\ last.err = "client mismatch"
  /\ opts.requireClient = Address("0xB") /\ opts.requireServer = EmptyStr
  /\ RoleVerified("client").ok /\ RoleVerified("server").ok
  /\ ~DeadlinePassed /\ ~KindFails

(***************************************************************************)
(* C14                                                                     *)
(***************************************************************************)

ReachedPrimitive == ReachedDeadline /\ ~DeadlinePassed

\* The members of the document's core that the guard looks at.
CoreMember(k) ==
  IF Field(heap, TPDoc, "core").t = "ref"
  THEN Field(heap, Field(heap, TPDoc, "core").r, k)
  ELSE Undefined
AmountIn ==
  IF CoreMember("payload").t = "ref"
  THEN Field(heap, CoreMember("payload").r, "amountIn")
  ELSE Undefined
SwapShape == CoreMember("kind") = VStr(Str("swap@1")) /\ AmountIn.t = "str"

\* C14: called with primitive "swap@1", verifyMandateAsThirdParty, once the
\* earlier steps have passed, returns exactly when core.kind is "swap@1",
\* core.payload has a string amountIn and that string is not "0"; it throws
\* "unexpected core shape for swap@1" for another kind or an amountIn that
\* is no string, and "bad amountIn" for "0".  Called with no primitive it
\* returns the core as it is, whatever it is.
C14_Primitive ==
  ReachedPrimitive
    => IF opts.primitive = "swap@1"
       THEN /\ last.ok <=> (SwapShape /\ AmountIn # VStr(Str("0")))
            /\ ~SwapShape
                 => last.step = "primitive" /\ last.err = "unexpected core shape for swap@1"
            /\ (SwapShape /\ AmountIn = VStr(Str("0")))
                 => last.step = "primitive" /\ last.err = "bad amountIn"
       ELSE /\ last.ok
            /\ Receipt.core = Stringify(heap, Field(heap, TPDoc, "core"))

\* A swap whose amountIn is a number was verified as a swap.
C14_Witness ==
  /\ ReachedPrimitive /\ opts.primitive = "swap@1"
  /\ CoreMember("kind") = VStr(Str("swap@1"))
  /\ AmountIn.t = "num"
  /\ last.err = "unexpected core shape for swap@1"

(***************************************************************************)
(* C15                                                                     *)
(***************************************************************************)

RequiredOfClient == [NoOptions EXCEPT !.requireClient = Address("0xB")]

\* What a call returns or throws.
Outcome(o, u, clock) == VerifyMandateAsThirdParty(heap, TPDoc, o, u, clock)

\* The clock plays no part when opts.now is given.
ClockUsed(o, clock) == IF o.now = -1 THEN clock ELSE 0

\* The outcome depends on the document, the options and the reference time
\* only: not on what ulid() returns, nor on the clock when opts.now is given.
SameOutcome ==
  \A o \in RepeatOptions, u \in FreshUlids, clock \in Times :
    Outcome(o, u, clock) = Outcome(o, Str("01M2"), ClockUsed(o, clock))

\* The call that was made had the outcome that a call has now.
LastAsNow ==
  last.op = "verify"
    => /\ last.ok = Outcome(opts, Str("01M2"), last.clock).ok
       /\ last.err = Outcome(opts, Str("01M2"), last.clock).err
       /\ last.step = Outcome(opts, Str("01M2"), last.clock).step

\* A call leaves the document, and every object there is, as it was.
InputUntouched == heap' = heap /\ docs' = docs

\* C15: verifyMandateAsThirdParty keeps nothing and changes nothing: a call
\* leaves the document as it was, so that calls made before, in any number
\* and with any options, change no later outcome; and the outcome, receipt
\* or error, is the same for the same document, options and reference time,
\* whatever ulid() and (with opts.now given) the clock give during the call.
C15_Stateless == [][InputUntouched]_vars /\ [](SameOutcome /\ LastAsNow)

\* A countersigned mandate verified for the third time at least, and
\* accepted after a call that had other options.
C15_Witness ==
  /\ ops >= 3 /\ last.op = "verify" /\ last.ok /\ opts.now = 1
  /\ ~Outcome(RequiredOfClient, Str("01M3"), 2).ok
  /\ RoleVerified("client").ok /\ RoleVerified("server").ok

(***************************************************************************)
(* C16  setCore: its two failures and its success                          *)
(***************************************************************************)

\* What the validators are registered to do, told of the payload as the
\* caller wrote it: whether parse() returns, and the value it returns.
Accepts(validator, payload) ==
  /\ payload.t = "obj"
  /\ \E i \in 1..Len(payload.kv) : payload.kv[i][1] = "amountIn" /\ payload.kv[i][2].t = "str"
  /\ validator = "SwapSchema" =>
       /\ \E i \in 1..Len(payload.kv) : payload.kv[i][1] = "chainId" /\ payload.kv[i][2].t = "num"
       /\ \E i \in 1..Len(payload.kv) : payload.kv[i][1] = "minOut" /\ payload.kv[i][2].t = "str"
MemberOf(payload, k) == payload.kv[CHOOSE i \in 1..Len(payload.kv) : payload.kv[i][1] = k][2]
Validated(validator, payload) ==
  IF validator = "SwapSchema"
  THEN Obj(<< <<"chainId", MemberOf(payload, "chainId")>>,
              <<"amountIn", MemberOf(payload, "amountIn")>>,
              <<"minOut", MemberOf(payload, "minOut")>> >>)
  ELSE payload

\* The validator registered for a kind.
RegisteredFor(kind) == Get(registry, kind).validator

\* The core of m1, as a document.
CoreNow == Stringify(heap, Field(heap, inst["m1"], "core"))

\* C16: setCore(kind, payload) throws "Unknown primitive: <kind>" when the
\* kind is not registered and throws what the validator throws when the
\* registered validator rejects the payload, and in both cases the core,
\* and every other object, is as it was; otherwise it returns and the core
\* is a new object with the two members kind and payload, the payload being
\* the value the validator returned, whatever the core was before.
C16_SetCore ==
  [][last'.op = "setCore" =>
       IF ~HasKey(registry, last'.kind)
       THEN /\ ~last'.ok /\ last'.err = "Unknown primitive: " \o last'.kind
            /\ heap' = heap /\ inst' = inst
       ELSE IF ~Accepts(RegisteredFor(last'.kind), last'.payload)
       THEN /\ ~last'.ok /\ last'.err = "Invalid payload"
            /\ heap' = heap /\ inst' = inst
       ELSE /\ last'.ok
            /\ CoreNow' = Obj(<< <<"kind", TStr(Str(last'.kind))>>,
                                 <<"payload", Validated(RegisteredFor(last'.kind), last'.payload)>> >>)
            /\ registry' = registry]_vars

\* Reached: a core set over a signed swap, its payload the validated value
\* (without the member the schema does not know) and not the value passed.
C16_Witness ==
  /\ last.op = "setCore" /\ last.ok /\ last.payload = SwapPayloadOther
  /\ RegisteredFor("swap@1") = "SwapSchema"
  /\ CoreNow # Obj(<< <<"kind", TStr(Str("swap@1"))>>, <<"payload", SwapPayloadOther>> >>)
  /\ HasSig(heap, inst["m1"], "server")

(***************************************************************************)
(* C17  setCore changes the core and nothing else                          *)
(***************************************************************************)

\* The members of m1 that setCore is to leave alone, signatures included.
OutsideCore(h, m) ==
  [k \in (NonSignatureFields \ {"core"}) \cup {"signatures"} |-> Stringify(h, Field(h, m, k))]

\* A signature of the role is attached and was made over another content.
Stale(h, m, role) == AsSigned(h, m, role) /\ ChangedSinceSigned(h, m, role)

HashMismatchFor(h, m, role) ==
  \A dom \in VerifyDomains :
    /\ ~VerifyRole(h, m, role, dom).ok
    /\ VerifyRole(h, m, role, dom).err = SigKey(role) \o ".mandateHash mismatch"

\* A call of setCore that returned.
SetCoreKeepsTheRest ==
  (last'.op = "setCore" /\ last'.ok) =>
    /\ OutsideCore(heap', inst'["m1"]) = OutsideCore(heap, inst["m1"])
    /\ \A role \in Roles :
         (HasSig(heap, inst["m1"], role) /\ ChangedSinceSigned(heap', inst'["m1"], role))
           => HashMismatchFor(heap', inst'["m1"], role)

\* A call of sign that returned ends the mismatch of its role.
SignAgainEndsMismatch ==
  (last'.op = "sign" /\ last'.ok) =>
    /\ ~Stale(heap', inst'["m1"], last'.role)
    /\ VerifyRole(heap', inst'["m1"], last'.role, NoDomain).ok

\* C17: a setCore that returns leaves mandateId, version, client, server,
\* createdAt, deadline, intent and the signatures object, with every
\* signature in it, as they were; a signature made over another core than
\* the new one stays attached and verifyRole of its role throws
\* "<role>Sig.mandateHash mismatch" under every domain, in every state until
\* that role signs again, after which verifyRole of the role returns.
C17_SetCoreFrame ==
  /\ [][SetCoreKeepsTheRest /\ SignAgainEndsMismatch]_vars
  /\ [](\A role \in Roles : Stale(heap, inst["m1"], role) => HashMismatchFor(heap, inst["m1"], role))

\* Reached: both parties signed the swap, then the core was set to another
\* swap; both signatures are attached and neither verifies.
C17_Witness ==
  /\ last.op = "setCore" /\ last.ok
  /\ \A role \in Roles : Stale(heap, inst["m1"], role) /\ HashMismatchFor(heap, inst["m1"], role)

(***************************************************************************)
(* C18  sign and setCore: all or nothing, also around the await            *)
(***************************************************************************)

\* A call of sign or setCore that threw.
Failed == last'.op \in {"sign", "setCore"} /\ ~last'.ok

\* The core and the signatures of m1, as documents.
CoreAndSignatures(h, m) ==
  <<Stringify(h, Field(h, m, "core")), Stringify(h, Field(h, m, "signatures"))>>

FailureChangesNothing ==
  Failed => CoreAndSignatures(heap', inst'["m1"]) = CoreAndSignatures(heap, inst["m1"])

\* The hash in the role's Signature object is that of the mandate now.
EmbedsCurrentHash(h, m, role) ==
  Field(h, SigObjOf(h, m, role).r, "mandateHash") = VStr(MandateHash(h, m))

\* A sign() that returned, seen in the state it leaves.
AttachedIsCurrent ==
  (last'.op = "sign" /\ last'.ok) =>
    /\ EmbedsCurrentHash(heap', inst'["m1"], last'.role)
    /\ VerifyRole(heap', inst'["m1"], last'.role, NoDomain).ok

\* C18: a sign or setCore that throws leaves the core and the signatures as
\* they were, and a sign that returns, whatever ran on the same mandate
\* while it waited for its wallet, leaves for its role a signature with the
\* hash of the mandate as it then is, which verifyRole of the role accepts.
C18_NoPartialWrites == [][FailureChangesNothing /\ AttachedIsCurrent]_vars

\* The half that the code keeps: calls that throw change nothing.
C18_FailuresChangeNothing == [][FailureChangesNothing]_vars

\* Reached: a sign() of the server returned and verifyRole("server") throws
\* the hash mismatch: the core was set while the call waited.
C18_Witness ==
  /\ last.op = "sign" /\ last.ok /\ last.role = "server"
  /\ ~EmbedsCurrentHash(heap, inst["m1"], "server")
  /\ ~VerifyRole(heap, inst["m1"], "server", NoDomain).ok
  /\ VerifyRole(heap, inst["m1"], "server", NoDomain).err = "serverSig.mandateHash mismatch"

(***************************************************************************)
(* C19  The registry's duplicate guard                                     *)
(***************************************************************************)

\* The entry of a kind: whether there is one, and what it is.
EntryOf(reg, kind) == <<HasKey(reg, kind), Get(reg, kind)>>

\* C19: registerPrimitive of a kind the registry holds throws "Primitive
\* already registered: <kind>" and leaves the registry, the entry of the
\* first registration with its validator included, as it was;
\* registerPrimitive of a kind it does not hold returns, the kind's entry is
\* the def passed, and the entries of the other kinds are as they were.
C19_DuplicateGuard ==
  [][last'.op = "registerPrimitive" =>
       IF HasKey(registry, last'.kind)
       THEN /\ ~last'.ok
            /\ last'.err = "Primitive already registered: " \o last'.kind
            /\ registry' = registry
       ELSE /\ last'.ok
            /\ EntryOf(registry', last'.kind) = <<TRUE, PrimitiveDef(last'.kind, last'.validator)>>
            /\ \A kind \in Kinds \ {last'.kind} : EntryOf(registry', kind) = EntryOf(registry, kind)]_vars

\* Reached: swap@1 was registered with the schema, transfer@1 after it, and
\* a registration of swap@1 with the other validator has just thrown.
C19_Witness ==
  /\ last.op = "registerPrimitive" /\ ~last.ok
  /\ last.kind = "swap@1" /\ last.validator = "SwapLoose"
  /\ EntryOf(registry, "swap@1") = <<TRUE, PrimitiveDef("swap@1", "SwapSchema")>>
  /\ HasKey(registry, "transfer@1")

(***************************************************************************)
(* C20  Registrations of one kind by several callers                       *)
(***************************************************************************)

\* The calls made for a kind so far, and those of them that returned.
AttemptsFor(kind) == {i \in 1..Len(log) : log[i].kind = kind}
Succeeded(kind) == {i \in AttemptsFor(kind) : log[i].ok}

\* C20: of the calls of registerPrimitive made for one kind, by whichever
\* callers and in whichever order they run, exactly one returns and every
\* other throws, and the registry holds for the kind the validator of the
\* call that returned.
C20_OneRegistrationWins ==
  \A kind \in Kinds :
    AttemptsFor(kind) # {} =>
      /\ Cardinality(Succeeded(kind)) = 1
      /\ HasKey(registry, kind)
      /\ \A i \in Succeeded(kind) : Get(registry, kind) = PrimitiveDef(kind, log[i].validator)

\* Reached: three calls for swap@1 with differing validators; the registry
\* holds the validator of the first, which is not that of the last.
C20_Witness ==
  /\ Cardinality(AttemptsFor("swap@1")) >= 3
  /\ log[Len(log)].kind = "swap@1"
  /\ Get(registry, "swap@1").validator # log[Len(log)].validator
  /\ \E i \in Succeeded("swap@1") : log[i].validator = Get(registry, "swap@1").validator

(***************************************************************************)
(* C21  Registry lookups                                                   *)
(***************************************************************************)

\* A call of registerPrimitive for the kind has returned.
Registered(kind) == Succeeded(kind) # {}

LookupsTellRegistered ==
  \A kind \in Kinds :
    /\ GetPrimitive(registry, kind).ok <=> Registered(kind)
    /\ ~GetPrimitive(registry, kind).ok
         => GetPrimitive(registry, kind).err = "Unknown primitive: " \o kind
    /\ HasPrimitive(registry, kind) <=> Registered(kind)
    /\ \A i \in Succeeded(kind) :
         GetPrimitive(registry, kind).def = PrimitiveDef(kind, log[i].validator)

OnceRegisteredStays ==
  \A kind \in Kinds :
    HasPrimitive(registry, kind) =>
      /\ HasPrimitive(registry', kind)
      /\ GetPrimitive(registry', kind) = GetPrimitive(registry, kind)

\* C21: getPrimitive(kind) throws "Unknown primitive: <kind>" exactly when
\* no registerPrimitive of the kind has returned, and otherwise returns the
\* def then registered; hasPrimitive(kind) is true exactly for those kinds;
\* and no call takes a kind out of the registry or changes its validator.
C21_Lookups == [](LookupsTellRegistered) /\ [][OnceRegisteredStays]_vars

\* Reached: swap@1 is registered with the loose validator, a registration
\* of it with the schema has thrown since, and transfer@1 is unknown.
C21_Witness ==
  /\ Len(log) >= 3
  /\ GetPrimitive(registry, "swap@1").ok
  /\ GetPrimitive(registry, "swap@1").def.validator = "SwapLoose"
  /\ \E i \in AttemptsFor("swap@1") : ~log[i].ok /\ log[i].validator = "SwapSchema"
  /\ ~GetPrimitive(registry, "transfer@1").ok /\ ~HasPrimitive(registry, "transfer@1")

(***************************************************************************)
(* C22  Unregistered kinds and the places that ask the registry            *)
(***************************************************************************)

\* The kind of m1's core is one the registry holds, if it is a kind at all.
KindOfCoreRegistered ==
  \A kind \in Kinds : Is(heap, inst["m1"], kind) => HasPrimitive(registry, kind)

\* The last call handed a value back (tryCoreAs's null is none).
HandedBack ==
  last.op \in {"coreAs", "tryCoreAs", "coreAsKind"} /\ last.ok /\ last.value.t \notin {"null", "undef"}

\* C22, as claimed: no construction, setCore, coreAs, tryCoreAs or
\* coreAsKind leaves a mandate with a core of a kind the registry does not
\* hold, or hands back as typed the payload of such a core.
C22_UnregisteredNeverAccepted ==
  /\ (last.op \in {"new", "setCore"} /\ last.ok) => KindOfCoreRegistered
  /\ HandedBack => KindOfCoreRegistered

UnknownKindError(kind) == "Unknown primitive: " \o kind

\* setCore and coreAsKind, the two calls that ask the registry.
RegistryAsked ==
  /\ (last'.op = "setCore" /\ ~HasPrimitive(registry, last'.kind))
       => /\ ~last'.ok /\ last'.err = UnknownKindError(last'.kind)
          /\ heap' = heap /\ inst' = inst
  /\ (last'.op = "setCore" /\ last'.ok)
       => Is(heap', inst'["m1"], last'.kind) /\ HasPrimitive(registry', last'.kind)
  /\ (last'.op = "coreAsKind" /\ ~HasPrimitive(registry, last'.kind))
       => /\ ~last'.ok /\ last'.value = NoTree
          /\ last'.err = IF Is(heap, inst["m1"], last'.kind)
                         THEN UnknownKindError(last'.kind)
                         ELSE "core.kind mismatch: expected " \o last'.kind
  /\ (last'.op = "coreAsKind" /\ last'.ok)
       => Is(heap, inst["m1"], last'.kind) /\ HasPrimitive(registry, last'.kind)

\* C22, amended: where the kind and payload are validated against the
\* registry, in setCore and in coreAsKind, a kind the registry does not hold
\* is rejected: setCore throws "Unknown primitive: <kind>" and changes
\* nothing, coreAsKind throws and hands nothing back, and a call of either
\* that returns was made for a kind the registry holds.
C22_RegistryAsked == [][RegistryAsked]_vars

\* Reached: m1 was constructed with a transfer@1 core, transfer@1 is not
\* registered, coreAsKind("transfer@1") has thrown "Unknown primitive", and
\* coreAs with a validator of the caller's returns the payload.
C22_Witness ==
  /\ last.op = "coreAsKind" /\ ~last.ok /\ last.err = UnknownKindError("transfer@1")
  /\ Is(heap, inst["m1"], "transfer@1") /\ ~HasPrimitive(registry, "transfer@1")
  /\ CoreAs(heap, inst["m1"], "SwapLoose", "transfer@1").ok

(***************************************************************************)
(* C23  coreAsKind                                                         *)
(***************************************************************************)

\* The payload of m1's core, as a document.
PayloadNow == Stringify(heap, PayloadOfCore(heap, Field(heap, inst["m1"], "core")))

KindMismatchError(kind) == "core.kind mismatch: expected " \o kind

\* A call of coreAsKind(kind), by what the mandate and the registry were.
CoreAsKindValidates ==
  last'.op = "coreAsKind" =>
    /\ heap' = heap /\ inst' = inst
    /\ IF ~Is(heap, inst["m1"], last'.kind)
       THEN ~last'.ok /\ last'.err = KindMismatchError(last'.kind) /\ last'.value = NoTree
       ELSE IF ~HasPrimitive(registry, last'.kind)
       THEN ~last'.ok /\ last'.err = UnknownKindError(last'.kind) /\ last'.value = NoTree
       ELSE IF ~Accepts(RegisteredFor(last'.kind), PayloadNow)
       THEN ~last'.ok /\ last'.err = "Invalid payload" /\ last'.value = NoTree
       ELSE last'.ok /\ last'.value = Validated(RegisteredFor(last'.kind), PayloadNow)

\* C23: coreAsKind(kind) throws "core.kind mismatch: expected <kind>" when
\* the core is missing or of another kind; when the core is of the kind and
\* the kind's registered validator rejects the payload (a swap without
\* amountIn) it throws what the validator throws and returns nothing; it
\* returns only what the registered validator returned for the payload.
C23_CoreAsKind == [][CoreAsKindValidates]_vars

\* Reached: the core is a swap@1 without amountIn, swap@1 is registered,
\* and coreAsKind("swap@1") has thrown the validator's error.
C23_Witness ==
  /\ last.op = "coreAsKind" /\ last.kind = "swap@1" /\ ~last.ok /\ last.err = "Invalid payload"
  /\ Is(heap, inst["m1"], "swap@1") /\ HasPrimitive(registry, "swap@1")
  /\ PayloadNow = SwapPayloadNoAmount

(***************************************************************************)
(* C24  coreAs and tryCoreAs                                               *)
(***************************************************************************)

\* m1 has no core to read: the member is not an object.
CoreMissing == Stringify(heap, Field(heap, inst["m1"], "core")).t # "obj"

\* coreAs(schema, expectedKind) is to fail, and with what.
CoreAsError(schema, expectedKind) ==
  IF CoreMissing THEN "core missing"
  ELSE IF expectedKind # "" /\ ~Is(heap, inst["m1"], expectedKind)
  THEN KindMismatchError(expectedKind)
  ELSE IF ~Accepts(schema, PayloadNow) THEN "Invalid payload"
  ELSE ""

TypedReads ==
  /\ last'.op \in {"coreAs", "tryCoreAs"} => heap' = heap /\ inst' = inst
  /\ last'.op = "coreAs" =>
       IF CoreAsError(last'.validator, last'.kind) # ""
       THEN /\ ~last'.ok /\ last'.err = CoreAsError(last'.validator, last'.kind)
            /\ last'.value = NoTree
       ELSE last'.ok /\ last'.value = Validated(last'.validator, PayloadNow)
  /\ last'.op = "tryCoreAs" =>
       /\ last'.ok
       /\ last'.value = IF CoreAsError(last'.validator, last'.kind) # ""
                        THEN Stringify(heap, Null)
                        ELSE Validated(last'.validator, PayloadNow)

\* C24: coreAs(validator, expectedKind?) throws "core missing" when the
\* core is not an object, "core.kind mismatch" when an expected kind is
\* given and is not the core's, and what the validator throws when it
\* rejects the payload; otherwise it returns what the validator returns.
\* tryCoreAs returns null exactly when coreAs throws and what coreAs returns
\* otherwise. Neither changes the mandate.
C24_CoreAs == [][TypedReads]_vars

\* Reached: the core is a valid swap@1, and tryCoreAs with the schema and
\* the expected kind transfer@1 has returned null.
C24_Witness ==
  /\ last.op = "tryCoreAs" /\ last.ok /\ last.value.t = "null"
  /\ last.kind = "transfer@1" /\ last.validator = "SwapSchema"
  /\ Is(heap, inst["m1"], "swap@1") /\ Accepts("SwapSchema", PayloadNow)

(***************************************************************************)
(* C25  eip712 needs a domain with a chain identifier                      *)
(***************************************************************************)

\* The domain has no chain identifier: there is none, or it has no chainId.
LacksChain(domain) == domain \in {NoDomain, DomainNoChain}

DomainRequired == "EIP-712 requires domain"

\* A call of sign, by the scheme and the domain passed.
SignNeedsDomain ==
  last'.op = "sign" =>
    IF last'.alg = "eip712" /\ LacksChain(last'.dom)
    THEN /\ ~last'.ok /\ last'.err = DomainRequired
         /\ heap' = heap /\ inst' = inst
    ELSE last'.ok /\ SchemeOf(heap', inst'["m1"], last'.role) = last'.alg

\* verifyRole of an attached signature, under every domain a caller may pass.
VerifyNeedsDomain ==
  \A role \in Roles, domain \in DomainsPassed :
    HasSig(heap, inst["m1"], role) =>
      IF SchemeOf(heap, inst["m1"], role) = "eip712" /\ LacksChain(domain)
      THEN /\ ~VerifyRole(heap, inst["m1"], role, domain).ok
           /\ VerifyRole(heap, inst["m1"], role, domain).err = DomainRequired
      ELSE VerifyRole(heap, inst["m1"], role, domain).ok

\* C25: sign(role, wallet, "eip712", domain) with no domain, or with a
\* domain that has no numeric chainId, throws "EIP-712 requires domain" and
\* attaches nothing, the signatures there are staying as they were;
\* verifyRole of an eip712 signature under such a domain throws the same;
\* with eip191 both sign and verifyRole go through whatever the domain.
C25_DomainRequired == [][SignNeedsDomain]_vars /\ [](VerifyNeedsDomain)

\* Reached: the server's eip712 signature is attached, a sign of the client
\* under eip712 with a domain without chainId has thrown, and no client
\* signature is attached.
C25_Witness ==
  /\ last.op = "sign" /\ ~last.ok /\ last.role = "client" /\ last.dom = DomainNoChain
  /\ HasSig(heap, inst["m1"], "server") /\ SchemeOf(heap, inst["m1"], "server") = "eip712"
  /\ ~HasSig(heap, inst["m1"], "client")
  /\ VerifyRole(heap, inst["m1"], "server", DomainNoChain).err = DomainRequired

(***************************************************************************)
(* C26  Construction asks for client, server and deadline                  *)
(***************************************************************************)

\* The object passed to the constructor, as a document.
InitNow == Stringify(heap, VRef(docs["d1"].a))

\* The member is there and is a string that is not empty.
Present(tree, k) ==
  \E i \in 1..Len(tree.kv) :
    tree.kv[i][1] = k /\ tree.kv[i][2].t = "str" /\ tree.kv[i][2].s # EmptyStr

ConstructionError ==
  IF ~Present(InitNow, "client") \/ ~Present(InitNow, "server")
  THEN "client and server (CAIP-10) are required"
  ELSE IF ~Present(InitNow, "deadline") THEN "deadline (ISO 8601) is required"
  ELSE ""

Constructs ==
  last'.op = "fromObject" =>
    IF ConstructionError # ""
    THEN /\ ~last'.ok /\ last'.err = ConstructionError
         /\ inst' = inst /\ heap' = heap
    ELSE /\ last'.ok /\ inst'[last'.x] # 0
         /\ \A k \in RequiredMembers :
              Stringify(heap', Field(heap', inst'[last'.x], k)) = MemberOf(InitNow, k)

\* C26: new Mandate(init), and with it Mandate.fromObject(init), throws
\* "client and server (CAIP-10) are required" when client or server is
\* absent, null or empty and "deadline (ISO 8601) is required" when the
\* deadline is, and then the caller holds no instance and nothing was
\* built; with the three present it returns an instance that has them.
C26_Construction == [][Constructs]_vars

\* Reached: fromObject of an object with client and server and without a
\* deadline has thrown, and there is no instance.
C26_Witness ==
  /\ last.op = "fromObject" /\ ~last.ok /\ last.err = "deadline (ISO 8601) is required"
  /\ Present(InitNow, "client") /\ Present(InitNow, "server")
  /\ \A x \in MSlots : inst[x] = 0

(***************************************************************************)
(* C27  Well-formed parties                                                *)
(***************************************************************************)

\* <namespace>:<chainId>:<address>
WellFormed(v) == v.t = "str" /\ Len(Split(v.s)) = 3

\* The object passed has a client or server that is there and is no
\* identifier of that form.
IllFormedParty ==
  \E k \in {"client", "server"} : Present(InitNow, k) /\ ~WellFormed(MemberOf(InitNow, k))

\* Every instance there is has a well-formed client and server.
PartiesWellFormed ==
  \A x \in MSlots : inst[x] # 0 =>
    WellFormed(Field(heap, inst[x], "client")) /\ WellFormed(Field(heap, inst[x], "server"))

\* C27, as claimed: construction throws when client or server is there but
\* is not of the form <namespace>:<chainId>:<address>, so that every
\* instance has a well-formed client and server.
C27_IllFormedRejected ==
  /\ [][(last'.op = "fromObject" /\ IllFormedParty) => ~last'.ok]_vars
  /\ [](PartiesWellFormed)

\* What verifyRole says of the client's signature once the client has signed.
AfterClientSigns(h, m) ==
  VerifyRole(Sign(h, m, "client", "0xA", "eip191", NoDomain).h, m, "client", NoDomain)

\* Reached: an instance whose client is "alice"; after its client signs,
\* verifyRole("client") finds no address in the identifier and throws a
\* TypeError.
C27_Witness ==
  /\ last.op = "fromObject" /\ last.ok /\ inst["m1"] # 0
  /\ Field(heap, inst["m1"], "client") = VStr(Str("alice"))
  /\ ~AfterClientSigns(heap, inst["m1"]).ok
  /\ AfterClientSigns(heap, inst["m1"]).err = "TypeError"

(***************************************************************************)
(* C28  Canonicalisation does not depend on the order of keys              *)
(***************************************************************************)

RECURSIVE SameContent(_, _)
\* Two documents have the same keys and values: objects key by key,
\* arrays element by element in their order.
SameContent(a, b) ==
  /\ a.t = b.t /\ a.s = b.s /\ Len(a.kv) = Len(b.kv)
  /\ a.t = "arr" => \A i \in 1..Len(a.kv) : SameContent(a.kv[i][2], b.kv[i][2])
  /\ a.t = "obj" =>
       \A i \in 1..Len(a.kv) :
         \E j \in 1..Len(b.kv) :
           a.kv[i][1] = b.kv[j][1] /\ SameContent(a.kv[i][2], b.kv[j][2])

RECURSIVE SameButForArrayOrder(_, _)
\* The same, with the elements of arrays taken in any order.
SameButForArrayOrder(a, b) ==
  /\ a.t = b.t /\ a.s = b.s /\ Len(a.kv) = Len(b.kv)
  /\ a.t = "arr" =>
       /\ \A i \in 1..Len(a.kv) : \E j \in 1..Len(b.kv) :
            SameButForArrayOrder(a.kv[i][2], b.kv[j][2])
       /\ \A j \in 1..Len(b.kv) : \E i \in 1..Len(a.kv) :
            SameButForArrayOrder(a.kv[i][2], b.kv[j][2])
  /\ a.t = "obj" =>
       \A i \in 1..Len(a.kv) :
         \E j \in 1..Len(b.kv) :
           a.kv[i][1] = b.kv[j][1] /\ SameButForArrayOrder(a.kv[i][2], b.kv[j][2])

\* The document of an instance, as it was written.
Written(x) == Stringify(heap, VRef(inst[x]))

\* Two instances of the callers' that differ in the order of an array only.
ArrayOrderDiffers(x, y) ==
  SameButForArrayOrder(Written(x), Written(y)) /\ ~SameContent(Written(x), Written(y))

\* C28: two documents with the same keys and values, in whatever order the
\* keys of the document and of the objects in it (those in arrays too) were
\* inserted, have the same canonical string and the same hash; two that
\* differ in the order of the elements of an array have different
\* canonical strings and hashes.
C28_CanonicalDeterminism ==
  \A x \in MSlots, y \in MSlots :
    (inst[x] # 0 /\ inst[y] # 0) =>
      /\ SameContent(Written(x), Written(y)) =>
           /\ ToCanonicalString(heap, inst[x]) = ToCanonicalString(heap, inst[y])
           /\ MandateHash(heap, inst[x]) = MandateHash(heap, inst[y])
      /\ ArrayOrderDiffers(x, y) =>
           /\ ToCanonicalString(heap, inst[x]) # ToCanonicalString(heap, inst[y])
           /\ MandateHash(heap, inst[x]) # MandateHash(heap, inst[y])

\* Reached: m1 and m2 say the same with the keys of every object in
\* another order, and m3 has the hops of the path the other way round.
C28_Witness ==
  /\ \A x \in MSlots : inst[x] # 0
  /\ Written("m1") # Written("m2") /\ SameContent(Written("m1"), Written("m2"))
  /\ ArrayOrderDiffers("m1", "m3")
  /\ Len(MemberOf(MemberOf(MemberOf(Written("m1"), "core"), "payload"), "path").kv) = 2
  /\ MandateHash(heap, inst["m1"]) = MandateHash(heap, inst["m2"])
  /\ MandateHash(heap, inst["m1"]) # MandateHash(heap, inst["m3"])

(***************************************************************************)
(* C29  SIGTERM shuts every process down cleanly                           *)
(***************************************************************************)

\* The process has taken SIGTERM, its own listener for it has run, and when
\* it has ended it has exited with code 0.
ShutDownCleanly(p) ==
  /\ "SIGTERM" \in procs[p].ran
  /\ procs[p].st # "running" => procs[p].st = "exited" /\ procs[p].code = 0

\* C29: each of the server agent, the client agent, the validator agent and
\* the demo, once it has received SIGTERM, has run its own shutdown handler
\* and, when it ends, exits with code 0.
C29_SigtermCleanShutdown ==
  \A p \in Procs : "SIGTERM" \in procs[p].got => ShutDownCleanly(p)

\* Reached: the server agent, sent SIGTERM, has been ended by the signal:
\* no listener of its own has run and it has no exit code; and the demo,
\* whose listener for SIGTERM has run, has exited with code 1.
C29_Witness ==
  /\ procs["serverAgent"].got = {"SIGTERM"}
  /\ procs["serverAgent"].st = "killed" /\ procs["serverAgent"].by = "SIGTERM"
  /\ procs["serverAgent"].ran = {}
  /\ procs["demo"].ran = {"SIGTERM"}
  /\ procs["demo"].st = "exited" /\ procs["demo"].code = 1

(***************************************************************************)
(* C30  Dry run mode never submits a swap                                  *)
(***************************************************************************)

\* UNISWAP_DRY_RUN is set to true or 1.
DryRunMode == agent.env.UNISWAP_DRY_RUN \in {"true", "1"}

\* Both parties' signatures on the document verify.
BothSignaturesVerify(c) == c.ok /\ VerifyAll(c.h, c.a, NoDomain, NoDomain).ok
VerifiedCountersigned(tree) == BothSignaturesVerify(FromObjectOf(Parse(<< >>, tree), Str("01M9"), 0))

\* The mandate is one the agent executes: a swap@1 core, an id it keeps a
\* request under, an amount that is an integer.
Executes(ag, tree) ==
  /\ MemberOrNone(MemberOrNone(tree, "core"), "kind") = TStr(Str("swap@1"))
  /\ MemberOrNone(tree, "mandateId").t = "str"
  /\ MemberOrNone(tree, "mandateId").s \in ag.pendingRequests
  /\ MemberOrNone(MemberOrNone(MemberOrNone(tree, "core"), "payload"), "amountIn")
       \in {TStr(Str("0")), TStr(Str("100000000")), TNum("100000000")}

NoSwapSubmitted ==
  /\ agent.swaps = 0
  /\ \A i \in 1..Len(agent.executed) : agent.executed[i].tx = "mock"

MockHashMade ==
  IF Executes(agent, last'.value)
  THEN agent'.executed =
         Append(agent.executed, [mandateId |-> MemberOf(last'.value, "mandateId").s, tx |-> "mock"])
  ELSE agent'.executed = agent.executed

\* C30: with UNISWAP_DRY_RUN set to true or 1 the server agent never calls
\* the Uniswap manager's swap, in any state; for each countersigned mandate
\* whose two signatures verify and which it executes, it makes a mock
\* transaction hash (the mandates it rejects before that get no hash at all).
C30_DryRunNeverSwaps ==
  /\ [](DryRunMode => NoSwapSubmitted)
  /\ [][(DryRunMode /\ last'.op = "handleCountersignedMandate"
           /\ VerifiedCountersigned(last'.value)) => MockHashMade]_vars

\* Reached: with UNISWAP_DRY_RUN=1 and a private key in the environment,
\* the agent has executed a countersigned mandate it had issued, with a
\* mock hash and without a call of swap.
C30_Witness ==
  /\ agent.env.UNISWAP_DRY_RUN = "1" /\ agent.env.UNISWAP_PRIVATE_KEY # ""
  /\ last.op = "handleCountersignedMandate" /\ last.ok
  /\ last.value \in {Countersigned(t) : t \in agent.outbox}
  /\ Len(agent.executed) = 1 /\ agent.executed[1].tx = "mock"
  /\ agent.swaps = 0

(***************************************************************************)
(* C31  The server agent executes verified mandates only                   *)
(***************************************************************************)

\* What executing a swap leaves behind: calls of swap, transaction
\* hashes, objects on IPFS, SWAP_EXECUTION messages.
Traces(ag) == <<ag.swaps, ag.executed, ag.ipfs, ag.reports>>

\* C31: the server agent calls swap, makes a transaction hash, stores to
\* IPFS or sends a SWAP_EXECUTION message only while it handles a
\* countersigned mandate on whose rebuilt copy the client's and the server's
\* signature both verify; for a message whose mandate cannot be rebuilt or
\* fails either verification none of these happens.
C31_VerifiedBeforeExecution ==
  [][/\ last'.op # "handleCountersignedMandate" => Traces(agent') = Traces(agent)
     /\ last'.op = "handleCountersignedMandate" =>
          \/ agent' = agent /\ ~last'.ok
          \/ VerifiedCountersigned(last'.value)]_vars

\* Reached: the agent was handed back the mandate it had issued, without
\* the client's signature; it has a request for it, and has done nothing.
C31_Witness ==
  /\ last.op = "handleCountersignedMandate" /\ ~last.ok
  /\ last.value \in agent.outbox
  /\ MemberOf(last.value, "mandateId").s \in agent.pendingRequests
  /\ last.err = "clientSig missing"
  /\ Traces(agent) = <<0, << >>, << >>, << >> >>

\* ---- C33 ----

\* The document but for its signatures.
Unsigned(tree) == TreeDel(tree, "signatures")

\* The document is one the agent made, signed and sent, now countersigned:
\* its server is the agent's own address, and its parties, core, deadline
\* and id are those of a mandate in the outbox.
IssuedHere(ag, tree) ==
  /\ MemberOrNone(tree, "server") = TStr(Caip10("1", Address("0xB")))
  /\ \E t \in ag.outbox : Unsigned(t) = Unsigned(tree)

\* C33: the server agent makes a transaction hash (mock or by a swap) for a
\* countersigned mandate only if the mandate is one it issued itself: same
\* server, same content as the mandate it sent under that mandateId.
C33_OnlyOwnMandatesExecuted ==
  [][agent'.executed # agent.executed => IssuedHere(agent, last'.value)]_vars

\* A mandate between C and D, signed by C and D, under the id of a swap
\* request, has been executed and reported as a success.
C33_Witness ==
  /\ last.op = "handleCountersignedMandate" /\ last.ok
  /\ last.value = SignedByOthers(LitOther("r1"))
  /\ agent.outbox = {}
  /\ Len(agent.executed) = 1 /\ agent.executed[1].mandateId = Str("r1")
  /\ Len(agent.reports) = 1 /\ agent.reports[1].status = "success"

\* ---- C39 ----

\* The proofs put to IPFS.
Proofs(ag) == {i \in 1..Len(ag.ipfs) : ag.ipfs[i].what = "proof"}

\* C39: every stored proof carries dryRun = true when its transaction hash
\* is a mock one, and dryRun = false when uniswapManager.swap returned it.
C39_ProofDryRunFlag ==
  \A i \in Proofs(agent) : agent.ipfs[i].dryRun <=> agent.ipfs[i].tx = "mock"

\* Neither UNISWAP_DRY_RUN nor UNISWAP_PRIVATE_KEY is set: the swap was
\* simulated and the proof says dryRun = false.
C39_Witness ==
  /\ agent.env.UNISWAP_DRY_RUN = "" /\ agent.env.UNISWAP_PRIVATE_KEY = ""
  /\ agent.swaps = 0
  /\ \E i \in Proofs(agent) : agent.ipfs[i].tx = "mock" /\ ~agent.ipfs[i].dryRun

\* ---- C40 ----

\* What one step adds to a list of the agent.
Added(before, after) == {after[i] : i \in (Len(before) + 1)..Len(after)}

\* C40: a step that sends SWAP_EXECUTION 'failed' has submitted no swap
\* transaction for that mandate; a step that sends 'success' has a
\* transaction hash and has stored the mandate and the proof under it.
C40_ReportMatchesOutcome ==
  [][\A r \in Added(agent.reports, agent'.reports) :
       /\ r.status = "failed" =>
            [mandateId |-> r.mandateId, tx |-> "swap"] \notin Added(agent.executed, agent'.executed)
       /\ r.status = "success" =>
            /\ r.tx \in {"mock", "swap"}
            /\ [mandateId |-> r.mandateId, tx |-> r.tx] \in Added(agent.executed, agent'.executed)
            /\ \A what \in {"mandate", "proof"} :
                 \E s \in Added(agent.ipfs, agent'.ipfs) :
                   s.what = what /\ s.mandateId = r.mandateId /\ s.tx = r.tx]_vars

\* uniswapManager.swap returned a transaction hash, the proof could not be
\* stored, and the client was told that the swap failed.
C40_Witness ==
  /\ agent.swaps = 1
  /\ Len(agent.executed) = 1 /\ agent.executed[1].tx = "swap"
  /\ Len(agent.ipfs) = 1 /\ agent.ipfs[1].what = "mandate"
  /\ Len(agent.reports) = 1 /\ agent.reports[1].status = "failed"
  /\ agent.reports[1].mandateId = agent.executed[1].mandateId

\* ---- C34 ----

\* The positions of the list whose entry is for the mandate.
ForMandate(list, mandateId) == {i \in 1..Len(list) : list[i].mandateId = mandateId}
Successes(ag) == SelectSeq(ag.reports, LAMBDA r : r.status = "success")

\* C34: for one mandateId the server agent makes at most one transaction
\* hash and sends at most one SWAP_EXECUTION 'success', however often the
\* countersigned mandate is delivered.
C34_ExecutedAtMostOnce ==
  /\ \A i \in 1..Len(agent.executed) :
       Cardinality(ForMandate(agent.executed, agent.executed[i].mandateId)) = 1
  /\ \A i \in 1..Len(Successes(agent)) :
       Cardinality(ForMandate(Successes(agent), Successes(agent)[i].mandateId)) = 1

\* The mandate the agent issued has come back countersigned twice, and
\* uniswapManager.swap was called for it twice.
C34_Witness ==
  /\ last.op = "handleCountersignedMandate" /\ last.ok
  /\ IssuedHere(agent, last.value)
  /\ agent.swaps = 2
  /\ Len(agent.executed) = 2 /\ agent.executed[1] = agent.executed[2]
  /\ agent.executed[1].mandateId = MemberOf(last.value, "mandateId").s
  /\ Len(Successes(agent)) = 2

\* ---- C32 ----

\* The server's signature on the document verifies.
ServerSignatureVerifies(c) == c.ok /\ VerifyRole(c.h, c.a, "server", NoDomain).ok

\* The document has a swap@1 core with a string amountIn.
SwapCoreShape(tree) ==
  /\ MemberOrNone(MemberOrNone(tree, "core"), "kind") = TStr(Str("swap@1"))
  /\ MemberOrNone(MemberOrNone(MemberOrNone(tree, "core"), "payload"), "amountIn").t = "str"

\* What the client agent may countersign.
Acceptable(tree) ==
  SwapCoreShape(tree) /\ ServerSignatureVerifies(FromObjectOf(Parse(<< >>, tree), Str("01M9"), 0))

\* The document is, but for the client's signature, an acceptable mandate
\* that arrived in a MANDATE message.
FromAccepted(ag, tree) ==
  \E m \in ag.inbox :
    /\ Acceptable(m)
    /\ Unsigned(m) = Unsigned(tree)
    /\ MemberOf(MemberOf(m, "signatures"), "serverSig")
         = MemberOrNone(MemberOrNone(tree, "signatures"), "serverSig")

\* C32: the client agent stores and countersigns only mandates that came
\* in a MANDATE message, carry a server signature that verifies and have a
\* swap@1 core with a string amountIn; a message failing one of these
\* changes neither pendingMandates nor the timers nor what is sent.
C32_CountersignsVerifiedOnly ==
  [][/\ (last'.op = "handleMandate" /\ ~Acceptable(last'.value)) =>
          /\ ~last'.ok
          /\ agent'.pendingMandates = agent.pendingMandates
          /\ agent'.timers = agent.timers
          /\ agent'.sent = agent.sent
     /\ agent'.sent # agent.sent =>
          /\ last'.op = "countersignMandate"
          /\ agent'.sent = Append(agent.sent, agent'.sent[Len(agent'.sent)])
          /\ FromAccepted(agent, agent'.sent[Len(agent'.sent)])
     /\ \A k \in DOMAIN agent'.pendingMandates : FromAccepted(agent', agent'.pendingMandates[k])]_vars

\* Messages were refused (an unsigned mandate, one of another kind), the
\* server's mandate was stored, and its countersigned JSON has been sent.
C32_Witness ==
  /\ last.op = "countersignMandate" /\ last.ok
  /\ agent.inbox = {ServerSigned(LitFull, "0xB"), LitFull}
  /\ DOMAIN agent.pendingMandates = {VStr(Str("01M1"))}
  /\ agent.sent = << SignedTree(LitFull, "0xB", "0xA", Eip191) >>

\* ---- C38 ----

\* The deadline is a date and the reference time is not later.
DeadlineValid ==
  \E n \in Minutes : Field(heap, TPDoc, "deadline") = VStr(Iso(n)) /\ TPNow <= n

\* C38: third-party verification returns only for a mandate whose deadline
\* is a valid timestamp not earlier than the reference time.
C38_DeadlineIsADate == (last.op = "verify" /\ last.ok) => DeadlineValid

\* The mandate whose deadline reads 'tomorrow' has been accepted.
C38_Witness ==
  /\ last.op = "verify" /\ last.ok
  /\ Field(heap, TPDoc, "deadline") = VStr(Str("tomorrow"))

\* ---- C37 ----

\* JSON.stringify(d) of a document a caller holds.
DocWritten(d) == Stringify(heap, VRef(docs[d].a))

\* C37: a mandate is independent of the object it was built from: a
\* sign() on an instance changes no document a caller holds, and a change
\* a caller makes to a document changes no instance.
C37_IndependentOfInput ==
  [][/\ last'.op = "sign" =>
          \A d \in DSlots : (docs[d].a # 0 /\ docs'[d].a # 0) => DocWritten(d)' = DocWritten(d)
     /\ last'.op = "tamper" =>
          \A x \in MSlots : (inst[x] # 0 /\ inst'[x] # 0) => Written(x)' = Written(x)]_vars

\* d1 = m1.toJSON() after the server signed; m2 = Mandate.fromObject(d1);
\* m2 was signed by the client, and d1 now holds a client signature that
\* m1 does not.
C37_Witness ==
  /\ last.op = "sign" /\ last.x = "m2" /\ last.role = "client" /\ last.ok
  /\ docs["d1"].a # 0 /\ inst["m1"] # 0
  /\ MemberOrNone(MemberOrNone(Written("m1"), "signatures"), "serverSig") # NoTree
  /\ MemberOrNone(MemberOrNone(Written("m1"), "signatures"), "clientSig") = NoTree
  /\ MemberOrNone(MemberOrNone(DocWritten("d1"), "signatures"), "clientSig") # NoTree
  /\ DocWritten("d1") = Written("m2")

\* ---- C35 ----

\* verifyMandateAsThirdParty with primitive swap@1 returns for the
\* document at that minute.
PassesAsSwap(p, clock) == VerifyMandateAsThirdParty(p.h, p.v.r, SwapPrimitive, Str("01M9"), clock).ok
LoadedAndVerified(tree, clock) == tree.t = "obj" /\ PassesAsSwap(Parse(<< >>, tree), clock)

\* C35: the validator agent submits a response only for a mandate that was
\* loaded and passed verifyMandateAsThirdParty with primitive swap@1, with
\* a score from 0 to 100; in every other case no response is submitted and
\* the process exits.
C35_ResponseOnlyAfterVerification ==
  [][/\ last'.op # "onValidationRequest" => agent'.responses = agent.responses
     /\ last'.op = "onValidationRequest" =>
          IF agent'.responses # agent.responses
          THEN /\ Len(agent'.responses) = Len(agent.responses) + 1
               /\ agent'.responses[Len(agent'.responses)] \in 0..100
               /\ LoadedAndVerified(last'.value, last'.clock)
          ELSE agent'.exited]_vars

\* A countersigned swap mandate was verified at its deadline; the deadline
\* passed during the validation and the swap on chain does not match: the
\* response is 50.
C35_Witness ==
  /\ last.op = "onValidationRequest" /\ last.ok /\ last.clock = 1
  /\ last.value = SignedTree(LitFull, "0xB", "0xA", Eip191)
  /\ agent.responses = << 50 >>
  /\ agent.notes = << [decisionScore |-> 50, swapValidation |-> "invalid"] >>

\* ---- C36 ----

\* C36: a response of 100 is given only when the swap transaction of the
\* proof was validated on chain and found valid.
C36_FullScoreNeedsValidSwap ==
  \A i \in 1..Len(agent.notes) :
    agent.notes[i].decisionScore = 100 => agent.notes[i].swapValidation = "valid"

\* No UniswapV3Manager: the swap validation was skipped and the response
\* submitted is 100.
C36_Witness ==
  /\ ~agent.uniswapManager
  /\ last.op = "onValidationRequest" /\ last.ok
  /\ agent.responses = << 100 >>
  /\ agent.notes = << [decisionScore |-> 100, swapValidation |-> "null"] >>

====
